---- MODULE Spec2Model ----
(***************************************************************************)
(* Model of the route-solving engine (algorithms/tsp.ts): the geometry     *)
(* primitives, the Held-Karp, Nearest-Neighbor, 2-Opt and Christofides     *)
(* solvers, the grid A* pathfinder and the dispatcher; and of the app      *)
(* (App.tsx) that calls it from its handlers and timer callbacks.          *)
(*                                                                         *)
(* Numbers.  The source computes lengths with IEEE doubles, and the model   *)
(* computes the same doubles: a length d (0, or 1/2 <= d < 1024) is held    *)
(* as the whole number d * 2^53 in three limbs <<high, middle, low>> of 24  *)
(* bits, a sum is rounded to 53 significant bits, ties to even, and a       *)
(* square root is correctly rounded.  <<32, 0, 0>> is 1.0.  Coordinates are *)
(* whole numbers, except for the points in halves on which the 'astar'      *)
(* branch is also run.                                                      *)
(*                                                                         *)
(* Points.  A Point is [id, x, y, name]; the ids of the input points are   *)
(* unique, so that two points at the same coordinates stay distinct, as    *)
(* the source's object references do.  A path is a sequence of Points.     *)
(*                                                                         *)
(* Arrays.  A RouteResult says whether its path is the caller's input      *)
(* array itself (pathIsInput); the working path of 2-opt is held as an     *)
(* array object with its entries, the object "points" being the caller's   *)
(* array and any other an array that the call allocated.                   *)
(***************************************************************************)
EXTENDS Integers, Sequences, FiniteSets, TLC

\* The dispatcher's ceiling for the exact solver (points.length <= 20).
DPLimit == 20

(***************************************************************************)
(* Bounds of the exploration.                                              *)
(***************************************************************************)
\* Inputs of every length 0..MaxN over the positions below are enumerated.
MaxN == 4
\* The enumerated positions are the first MaxPos cells, row by row from
\* (0, 0), of a grid whose x coordinates are 0..MaxX.
MaxPos == 6
MaxX == 2
\* aStarPathfinding is explored on grids of size MaxGrid.
MaxGrid == 4
\* The multi-point A* branch of solveTSP is run on inputs of at most
\* MaxRouteN points at even coordinates, and on the triangle scenario.
MaxRouteN == 3
\* The points in halves (twice their coordinates) lie at 0..MaxHalf halves.
MaxHalf == 5
\* The app is followed for MaxEvents user events (clicks on the map, on a stop
\* and on the buttons); the timer callbacks they start are not counted.
MaxEvents == 3

(***************************************************************************)
(* 4.0 Doubles                                                             *)
(***************************************************************************)
\* A limb holds 24 bits; a double d is the three limbs of d * 2^53.
Limb == 2 ^ 24

\* The double 0.
Zero == <<0, 0, 0>>

\* The double of the whole number k, 0 <= k < 1024.
Whole(k) == <<32 * k, 0, 0>>

\* a < b, limb by limb from the high one.
LessLimbs(a, b) ==
    \/ a[1] < b[1]
    \/ a[1] = b[1] /\ (a[2] < b[2] \/ (a[2] = b[2] /\ a[3] < b[3]))

\* a < b of two doubles (the operands are taken as values first).
Less(a, b) == \E t \in {<<a, b>>} : LessLimbs(t[1], t[2])

\* The weight, in units of 2^-53, of the last of the 53 significant bits of a
\* double below 1024 whose high limb is high.
Ulp(high) ==
    IF high < 32 THEN 1
    ELSE IF high < 64 THEN 2
    ELSE IF high < 128 THEN 4
    ELSE IF high < 256 THEN 8
    ELSE IF high < 512 THEN 16
    ELSE IF high < 1024 THEN 32
    ELSE IF high < 2048 THEN 64
    ELSE IF high < 4096 THEN 128
    ELSE IF high < 8192 THEN 256
    ELSE IF high < 16384 THEN 512
    ELSE 1024

\* The limbs with low carried over once it has reached the base.
Carry(high, middle, low) ==
    IF low < Limb THEN <<high, middle, low>>
    ELSE IF middle + 1 < Limb THEN <<high, middle + 1, low - Limb>>
    ELSE <<high + 1, 0, low - Limb>>

\* a + b without rounding (a sum of real numbers).
Sum(a, b) ==
    LET low == a[3] + b[3]
        middle == a[2] + b[2] + (IF low < Limb THEN 0 ELSE 1)
    IN  <<a[1] + b[1] + (IF middle < Limb THEN 0 ELSE 1),
          IF middle < Limb THEN middle ELSE middle - Limb,
          IF low < Limb THEN low ELSE low - Limb>>

\* The double nearest to the number s, the one of even last bit on a tie.
Nearest(s) ==
    LET m == Ulp(s[1])
        q == s[3] % m
        kept == s[3] - q
    IN  IF q = 0 THEN s
        ELSE IF 2 * q > m \/ (2 * q = m /\ (kept \div m) % 2 = 1)
        THEN Carry(s[1], s[2], kept + m)
        ELSE <<s[1], s[2], kept>>

\* a + b of two doubles (the operands are taken as values first).
Plus(a, b) ==
    CHOOSE r \in {Nearest(s) : s \in {Sum(t[1], t[2]) : t \in {<<a, b>>}}} :
       TRUE

\* newDist < currentDist - 0.0001.  The double 0.0001 is 900719925474 +
\* 813/8192 units of 2^-53, so currentDist - 0.0001 is, before rounding, the
\* whole number currentDist - 900719925475 and 7379/8192 more; it is rounded
\* up when what lies below the last kept bit is half of it or more.  A
\* currentDist of 0 gives a negative number, below which no length lies.
LessByToleranceLimbs(newDist, currentDist) ==
    LET low == currentDist[3] - 1530083
        middle == currentDist[2] - 53687 - (IF low < 0 THEN 1 ELSE 0)
        high == currentDist[1] - (IF middle < 0 THEN 1 ELSE 0)
        whole == IF low < 0 THEN low + Limb ELSE low
        m == Ulp(high)
        q == whole % m
        rounded == Carry(high, IF middle < 0 THEN middle + Limb ELSE middle,
                         IF 2 * q + 2 > m THEN whole - q + m ELSE whole - q)
    IN  currentDist # Zero /\ LessLimbs(newDist, rounded)

\* newDist < currentDist - 0.0001 (the operands are taken as values first).
LessByTolerance(newDist, currentDist) ==
    \E t \in {<<newDist, currentDist>>} : LessByToleranceLimbs(t[1], t[2])

(***************************************************************************)
(* 4.1 Geometry primitives                                                 *)
(***************************************************************************)
\* floor(sqrt(n)) for n < 2^20, one bit at a time from bit down.
RECURSIVE IntegerRoot(_, _, _)
IntegerRoot(n, r, bit) ==
    IF bit = 0 THEN r
    ELSE IF (r + bit) * (r + bit) <= n THEN IntegerRoot(n, r + bit, bit \div 2)
    ELSE IntegerRoot(n, r, bit \div 2)

\* The number x times the small whole number c.
Times(x, c) ==
    LET low == x[3] * c
        middle == x[2] * c + low \div Limb
    IN  <<x[1] * c + middle \div Limb, middle % Limb, low % Limb>>

\* From the root r and remainder rem of N to those of 4N, 16N, ... until the
\* root has 27 bits.
RECURSIVE RootBits(_, _)
RootBits(r, rem) ==
    IF r >= 2 ^ 26 THEN <<r, rem>>
    ELSE IF 4 * rem >= 4 * r + 1 THEN RootBits(2 * r + 1, 4 * rem - (4 * r + 1))
    ELSE RootBits(2 * r, 4 * rem)

\* Quotient q and remainder u of (q * d + u) * 8^steps by d, 3 bits a step.
RECURSIVE RootDivide(_, _, _, _)
RootDivide(q, u, d, steps) ==
    IF steps = 0 THEN <<q, u>>
    ELSE RootDivide(8 * q + (8 * u) \div d, (8 * u) % d, d, steps - 1)

\* u * 2^27 < q * q: the 27 low bits q of a 54-bit root are one too large.
RootOvershoots(q, u) ==
    LET qh == q \div 16384
        ql == q % 16384
        m == qh * ql
        low == (m % 8192) * 32768 + ql * ql
        high == qh * qh + m \div 8192 + low \div (2 ^ 28)
    IN  \/ u \div 2 < high
        \/ u \div 2 = high /\ (u % 2) * (2 ^ 27) < low % (2 ^ 28)

\* x * 2^k for the whole part i of a root, of k + 1 bits.
RECURSIVE Scaled(_, _)
Scaled(x, i) ==
    IF i >= 64 THEN Scaled(Times(x, 64), i \div 64)
    ELSE Times(x, IF i < 2 THEN 1 ELSE IF i < 4 THEN 2 ELSE IF i < 8 THEN 4
                  ELSE IF i < 16 THEN 8 ELSE IF i < 32 THEN 16 ELSE 32)

\* The 27 low bits of the 54-bit root whose 27 high bits are the root sr[1]
\* with remainder sr[2]: the quotient of the remainder by twice the root,
\* one less when its square does not fit.
RootLow(sr) ==
    CHOOSE q \in {IF RootOvershoots(qu[1], qu[2]) THEN qu[1] - 1 ELSE qu[1] :
                    qu \in {RootDivide(sr[2] \div (2 * sr[1]),
                                        sr[2] % (2 * sr[1]), 2 * sr[1], 9)}} :
       TRUE

\* The 54-bit root of high bits s and low bits q, rounded to 53 bits (the
\* root of a non-square is never half-way) and scaled back by the whole
\* part i.
RootRounded(s, q, i) ==
    LET even == q + (q % 2)
        high == 8 * s + even \div Limb
    IN  Scaled(<<high \div Limb, high % Limb, even % Limb>>, i)

\* Math.sqrt(n) of a whole number n < 2^20, correctly rounded: the 54-bit
\* root of n * 4^k (27 bits bit by bit, 27 by one division), rounded to 53
\* bits and scaled back.
MathSqrt(n) ==
    IF n = 0 THEN Zero
    ELSE CHOOSE d \in
             {RootRounded(t[2][1], RootLow(t[2]), t[1]) :
                 t \in {<<i, RootBits(i, n - i * i)>> :
                            i \in {IntegerRoot(n, 0, 512)}}} :
            TRUE

\* The largest coordinate of any input, and the square roots of every squared
\* distance between two such points, computed once.
LargestCoordinate == DPLimit
SqrtTable ==
    [n \in 0 .. 2 * LargestCoordinate * LargestCoordinate |-> MathSqrt(n)]
        @@ <<>>

\* Math.sqrt(Math.pow(p1.x - p2.x, 2) + Math.pow(p1.y - p2.y, 2))
distance(p1, p2) ==
    LET n == (p1.x - p2.x) * (p1.x - p2.x) + (p1.y - p2.y) * (p1.y - p2.y)
    IN  IF n \in DOMAIN SqrtTable THEN SqrtTable[n] ELSE MathSqrt(n)

\* The for-loop of calculateRouteDistance from edge i on: total += distance.
RECURSIVE RouteSum(_, _, _)
RouteSum(path, i, total) ==
    IF i >= Len(path) THEN total
    ELSE RouteSum(path, i + 1, Plus(total, distance(path[i], path[i + 1])))

\* A faulty sum that starts at the second edge.
calculateRouteDistanceFromSecondEdge(path) == RouteSum(path, 2, Zero)

\* Sum of the consecutive distances of a path; 0 for a path of length <= 1.
calculateRouteDistance(path) == RouteSum(path, 1, Zero)

\* The point of 0-based index i of the input sequence.
PointAt(points, i) == points[i + 1]

\* A RouteResult.  timeMs is a wall-clock reading and is not modelled;
\* pathIsInput records that the path is the caller's points array itself.
RouteResult(path, dist, algorithm, isInput) ==
    [path |-> path, distance |-> dist, algorithm |-> algorithm,
     pathIsInput |-> isInput]


(***************************************************************************)
(* 4.2 Exact solver: Held-Karp                                             *)
(***************************************************************************)
\* Count set bits.
RECURSIVE builtin_popcount(_)
builtin_popcount(n) == IF n = 0 THEN 0 ELSE (n % 2) + builtin_popcount(n \div 2)

\* mask & (1 << i)
BitSet(mask, i) == (mask \div (2 ^ i)) % 2 = 1

\* A faulty scan that records end, not prev, as the parent.
RECURSIVE DPPrevScanParentIsEnd(_, _, _, _, _, _)
DPPrevScanParentIsEnd(points, dp, prevMask, end, prev, best) ==
    IF prev >= Len(points) THEN best
    ELSE IF ~BitSet(prevMask, prev) \/ <<prevMask, prev>> \notin DOMAIN dp
    THEN DPPrevScanParentIsEnd(points, dp, prevMask, end, prev + 1, best)
    ELSE LET newDist == Plus(dp[<<prevMask, prev>>].dist,
                             distance(PointAt(points, prev),
                                      PointAt(points, end)))
         IN  IF best.parent = -1 \/ Less(newDist, best.dist)
             THEN DPPrevScanParentIsEnd(points, dp, prevMask, end, prev + 1,
                                        [dist |-> newDist, parent |-> end])
             ELSE DPPrevScanParentIsEnd(points, dp, prevMask, end, prev + 1,
                                        best)

\* The innermost loop over prev: the least dp[prevMask, prev] + distance(prev,
\* end), the first prev winning ties.  parent = -1 stands for minDist =
\* Infinity (no entry found).
RECURSIVE DPPrevScan(_, _, _, _, _, _)
DPPrevScan(points, dp, prevMask, end, prev, best) ==
    IF prev >= Len(points) THEN best
    ELSE IF ~BitSet(prevMask, prev) \/ <<prevMask, prev>> \notin DOMAIN dp
    THEN DPPrevScan(points, dp, prevMask, end, prev + 1, best)
    ELSE LET newDist == Plus(dp[<<prevMask, prev>>].dist,
                             distance(PointAt(points, prev),
                                      PointAt(points, end)))
         IN  IF best.parent = -1 \/ Less(newDist, best.dist)
             THEN DPPrevScan(points, dp, prevMask, end, prev + 1,
                             [dist |-> newDist, parent |-> prev])
             ELSE DPPrevScan(points, dp, prevMask, end, prev + 1, best)

\* The (mask, end) keys the loops over mask and end reach for one subsetSize.
DPKeys(n, subsetSize) ==
    {key \in (0 .. (2 ^ n) - 1) \X (1 .. n - 1) :
        /\ builtin_popcount(key[1]) = subsetSize
        /\ BitSet(key[1], 0)
        /\ BitSet(key[1], key[2])}

\* A faulty initialisation: the first edge of every tour costs nothing.
DPInitFreeFirstEdge(points) ==
    [key \in {<<1 + 2 ^ i, i>> : i \in 1 .. Len(points) - 1} |->
        [dist |-> Zero, parent |-> 0]]

\* Initialize: from node 0 to each other node.  The maps dp and parent are
\* always set together and are kept as one table [dist, parent].
DPInit(points) ==
    [key \in {<<1 + 2 ^ i, i>> : i \in 1 .. Len(points) - 1} |->
        [dist |-> distance(PointAt(points, 0), PointAt(points, key[2])),
         parent |-> 0]]

\* Build up subsets of increasing size; an entry is set only if minDist <
\* Infinity.
RECURSIVE DPBuild(_, _, _)
DPBuild(points, dp, subsetSize) ==
    IF subsetSize > Len(points) THEN dp
    ELSE LET scanned == [key \in DPKeys(Len(points), subsetSize) |->
                           DPPrevScan(points, dp, key[1] - 2 ^ key[2], key[2],
                                      1, [dist |-> Zero, parent |-> -1])] @@ <<>>
             found == {key \in DOMAIN scanned : scanned[key].parent # -1}
         IN  DPBuild(points, [key \in found |-> scanned[key]] @@ dp,
                     subsetSize + 1)

\* Find optimal tour ending back at node 0; lastNode = -1 stands for minTour
\* = Infinity.
RECURSIVE DPLastScan(_, _, _, _)
DPLastScan(points, dp, i, best) ==
    LET n == Len(points)
        key == <<(2 ^ n) - 1, i>>
    IN  IF i >= n THEN best
        ELSE IF key \notin DOMAIN dp THEN DPLastScan(points, dp, i + 1, best)
        ELSE LET tourDist == Plus(dp[key].dist,
                                  distance(PointAt(points, i),
                                           PointAt(points, 0)))
             IN  IF best.lastNode = -1 \/ Less(tourDist, best.minTour)
                 THEN DPLastScan(points, dp, i + 1,
                                 [minTour |-> tourDist, lastNode |-> i])
                 ELSE DPLastScan(points, dp, i + 1, best)

\* Reconstruct path: walk the parents back from curr; stop at node 0 or at a
\* missing table entry (the break).  curr = -1 (no tour found) pushes the
\* undefined points[-1], shown as the point of id "undefined".
RECURSIVE DPWalk(_, _, _, _, _)
DPWalk(points, dp, mask, curr, path) ==
    IF curr = 0 THEN path
    ELSE IF curr = -1 THEN Append(path, [id |-> "undefined", x |-> 0, y |-> 0,
                                           name |-> "undefined"])
    ELSE IF <<mask, curr>> \notin DOMAIN dp
    THEN Append(path, PointAt(points, curr))
    ELSE DPWalk(points, dp, mask - 2 ^ curr, dp[<<mask, curr>>].parent,
                Append(path, PointAt(points, curr)))

\* The keys parent.get is called with during the reconstruction from (mask,
\* curr) on, in order, the key of a failed lookup (the break) included.
RECURSIVE DPWalkLookups(_, _, _)
DPWalkLookups(dp, mask, curr) ==
    IF curr = 0 THEN <<>>
    ELSE IF <<mask, curr>> \notin DOMAIN dp THEN << <<mask, curr>> >>
    ELSE << <<mask, curr>> >>
            \o DPWalkLookups(dp, mask - 2 ^ curr, dp[<<mask, curr>>].parent)

RECURSIVE Reverse(_)
Reverse(s) == IF s = <<>> THEN <<>> ELSE Append(Reverse(Tail(s)), Head(s))

solveTSPExactDP(points) ==
    IF Len(points) <= 1
    THEN RouteResult(points, Zero, "Exact DP (Held-Karp)", TRUE)
    ELSE LET n == Len(points)
             dp == DPBuild(points, DPInit(points), 3)
             last == DPLastScan(points, dp, 1,
                                [minTour |-> Zero, lastNode |-> -1])
             walked == DPWalk(points, dp, (2 ^ n) - 1, last.lastNode,
                              <<PointAt(points, 0)>>)
         IN  RouteResult(Reverse(Append(walked, PointAt(points, 0))),
                         last.minTour, "Exact DP (Held-Karp)", FALSE)

(***************************************************************************)
(* 4.3 Nearest Neighbor                                                    *)
(***************************************************************************)
\* A faulty scan in which the last of several equally near points wins (<=).
RECURSIVE NNScanLastWins(_, _, _, _, _)
NNScanLastWins(points, current, visited, i, best) ==
    IF i >= Len(points) THEN best
    ELSE IF i \in visited
    THEN NNScanLastWins(points, current, visited, i + 1, best)
    ELSE LET dist == distance(PointAt(points, current), PointAt(points, i))
         IN  IF best.nearest = -1 \/ ~Less(best.minDist, dist)
             THEN NNScanLastWins(points, current, visited, i + 1,
                                 [nearest |-> i, minDist |-> dist])
             ELSE NNScanLastWins(points, current, visited, i + 1, best)

\* The inner for-loop: the unvisited i of least distance from current, the
\* first one winning ties (strict <).  nearest = -1 stands for minDist =
\* Infinity.
RECURSIVE NNScan(_, _, _, _, _)
NNScan(points, current, visited, i, best) ==
    IF i >= Len(points) THEN best
    ELSE IF i \in visited THEN NNScan(points, current, visited, i + 1, best)
    ELSE LET dist == distance(PointAt(points, current), PointAt(points, i))
         IN  IF best.nearest = -1 \/ Less(dist, best.minDist)
             THEN NNScan(points, current, visited, i + 1,
                         [nearest |-> i, minDist |-> dist])
             ELSE NNScan(points, current, visited, i + 1, best)

\* The while-loop (visited.size < n); st = [visited, path, current, total].
RECURSIVE NNLoop(_, _)
NNLoop(points, st) ==
    IF Cardinality(st.visited) >= Len(points) THEN st
    ELSE LET b == NNScan(points, st.current, st.visited, 0,
                         [nearest |-> -1, minDist |-> Zero])
         IN  NNLoop(points,
                    [visited |-> st.visited \cup {b.nearest},
                     path |-> Append(st.path, PointAt(points, b.nearest)),
                     current |-> b.nearest,
                     total |-> Plus(st.total, b.minDist)])

\* Return to start: the loop state st closed back to points[0].
NNReturnToStart(points, st) ==
    RouteResult(Append(st.path, PointAt(points, 0)),
                Plus(st.total, distance(PointAt(points, st.current),
                                        PointAt(points, 0))),
                "Nearest Neighbor (Greedy)", FALSE)

\* const path = [points[0]]; visited = {0}; current = 0; totalDist = 0
NNStart(points) ==
    [visited |-> {0}, path |-> <<PointAt(points, 0)>>, current |-> 0,
     total |-> Zero]

\* A faulty variant without the early return for a single point: the loop
\* result is closed like any other tour.
solveTSPNearestNeighborNoEarlyReturn(points) ==
    IF Len(points) < 1
    THEN RouteResult(points, Zero, "Nearest Neighbor", TRUE)
    ELSE NNReturnToStart(points, NNLoop(points, NNStart(points)))

solveTSPNearestNeighbor(points) ==
    IF Len(points) <= 1
    THEN RouteResult(points, Zero, "Nearest Neighbor", TRUE)
    ELSE NNReturnToStart(points, NNLoop(points, NNStart(points)))

(***************************************************************************)
(* 4.4 2-Opt local search                                                  *)
(***************************************************************************)
\* const maxIterations = 1000
maxIterations == 1000

\* A faulty swap loop that only writes the left half of each exchanged pair:
\* the entries right of the middle are copied over the ones left of it.
ReverseSegmentHalfSwap(path, left, right) ==
    [k \in 1 .. Len(path) |->
        IF left + 1 <= k /\ k <= right + 1 /\ 2 * k < left + right + 2
        THEN path[left + right + 2 - k] ELSE path[k]]

\* The swap loop (left++, right--): path with the entries of the 0-based
\* positions left..right in reverse order.
ReverseSegment(path, left, right) ==
    [k \in 1 .. Len(path) |->
        IF left + 1 <= k /\ k <= right + 1
        THEN path[left + right + 2 - k] ELSE path[k]]

\* A faulty improvement test with the comparison turned around: a swap is
\* taken when it lengthens the tour.
TwoOptImprovesReversed(path, i, j) ==
    LET a == path[i + 1]
        b == path[i + 2]
        c == path[j + 1]
        d == IF j + 1 < Len(path) THEN path[j + 2] ELSE path[1]
        currentDist == Plus(distance(a, b), distance(c, d))
        newDist == Plus(distance(a, c), distance(b, d))
    IN  LessByTolerance(currentDist, newDist)

\* if (newDist < currentDist - 0.0001) for the 0-based edge positions i, j.
TwoOptImproves(path, i, j) ==
    LET a == path[i + 1]
        b == path[i + 2]
        c == path[j + 1]
        d == IF j + 1 < Len(path) THEN path[j + 2] ELSE path[1]
        currentDist == Plus(distance(a, b), distance(c, d))
        newDist == Plus(distance(a, c), distance(b, d))
    IN  LessByTolerance(newDist, currentDist)

\* The inner for-loop over j (from j on) for one 0-based position i; the
\* reversal acts on the path the rest of the pass goes on with.
RECURSIVE TwoOptInner(_, _, _, _)
TwoOptInner(path, i, j, improved) ==
    IF j >= Len(path) THEN [path |-> path, improved |-> improved]
    ELSE IF TwoOptImproves(path, i, j)
    THEN TwoOptInner(ReverseSegment(path, i + 1, j), i, j + 1, TRUE)
    ELSE TwoOptInner(path, i, j + 1, improved)

\* One full pass: the outer for-loop over i (from i on).
RECURSIVE TwoOptPass(_, _, _)
TwoOptPass(path, i, improved) ==
    IF i >= Len(path) - 1 THEN [path |-> path, improved |-> improved]
    ELSE LET r == TwoOptInner(path, i, i + 2, improved)
         IN  TwoOptPass(r.path, i + 1, r.improved)

\* while (improved && iterations < maxIterations)
RECURSIVE TwoOptLoop(_, _, _)
TwoOptLoop(path, improved, iterations) ==
    IF improved /\ iterations < maxIterations
    THEN LET r == TwoOptPass(path, 0, FALSE)
         IN  TwoOptLoop(r.path, r.improved, iterations + 1)
    ELSE [path |-> path, improved |-> improved, iterations |-> iterations]

\* { path, distance: calculateRouteDistance(path), algorithm }, the path a
\* new array.
RouteOf(path, algorithm) ==
    RouteResult(path, calculateRouteDistance(path), algorithm, FALSE)

\* path.slice(0, -1)
SliceOffLast(path) == SubSeq(path, 1, Len(path) - 1)

\* A faulty variant that takes no seed and no copy (let path = points): the
\* search improves the order it was given, in the caller's array.
TwoOptWorkingPathInPlace(points) == [object |-> "points", items |-> points]

\* let path = nnResult.path.slice(0, -1): the working path is a new array
\* object, not the caller's ("points").
TwoOptWorkingPath(points) ==
    [object |-> "path",
     items |-> SliceOffLast(solveTSPNearestNeighbor(points).path)]

\* The while-loop: its swaps are made in the working path.
TwoOptSwapped(array) ==
    [array EXCEPT !.items = TwoOptLoop(@, TRUE, 0).path]

\* path.push(path[0]), in the working path, and the result with that array
\* as its path.
TwoOptReturn(array) ==
    CHOOSE r \in {RouteResult(path, calculateRouteDistance(path),
                              "2-Opt Local Search", array.object = "points") :
                     path \in {Append(array.items, array.items[1])}} : TRUE

solveTSP2Opt(points) ==
    IF Len(points) <= 2
    THEN RouteResult(points, calculateRouteDistance(points), "2-Opt", TRUE)
    ELSE TwoOptReturn(TwoOptSwapped(TwoOptWorkingPath(points)))

(***************************************************************************)
(* 4.5 Christofides                                                        *)
(***************************************************************************)
\* A faulty scan that takes the first vertex outside the tree that has a
\* key, without comparing keys.
RECURSIVE PrimMinKeyFirstFound(_, _, _, _, _)
PrimMinKeyFirstFound(n, inMST, key, i, u) ==
    IF i >= n THEN u
    ELSE IF i \notin inMST /\ i \in DOMAIN key /\ u = -1
    THEN PrimMinKeyFirstFound(n, inMST, key, i + 1, i)
    ELSE PrimMinKeyFirstFound(n, inMST, key, i + 1, u)

\* Find minimum key vertex not in MST: the first i of least key (strict <).
\* key[i] = Infinity is i \notin DOMAIN key; u = -1 is "none found".
RECURSIVE PrimMinKey(_, _, _, _, _)
PrimMinKey(n, inMST, key, i, u) ==
    IF i >= n THEN u
    ELSE IF i \notin inMST /\ i \in DOMAIN key /\ (u = -1 \/ Less(key[i], key[u]))
    THEN PrimMinKey(n, inMST, key, i + 1, i)
    ELSE PrimMinKey(n, inMST, key, i + 1, u)

\* Update keys of adjacent vertices: st = [key, parent], v from 0 to n-1.
RECURSIVE PrimUpdate(_, _, _, _, _)
PrimUpdate(points, inMST, u, v, st) ==
    IF v >= Len(points) THEN st
    ELSE LET dist == distance(PointAt(points, u), PointAt(points, v))
         IN  IF v \notin inMST /\ (v \notin DOMAIN st.key \/ Less(dist, st.key[v]))
             THEN PrimUpdate(points, inMST, u, v + 1,
                             [key |-> (v :> dist) @@ st.key,
                              parent |-> (v :> u) @@ st.parent])
             ELSE PrimUpdate(points, inMST, u, v + 1, st)

\* for (count = 0; count < n; count++), with the break on u === -1.
RECURSIVE PrimLoop(_, _, _, _)
PrimLoop(points, count, inMST, st) ==
    IF count >= Len(points) THEN st
    ELSE LET u == PrimMinKey(Len(points), inMST, st.key, 0, -1)
         IN  IF u = -1 THEN st
             ELSE PrimLoop(points, count + 1, inMST \cup {u},
                           PrimUpdate(points, inMST \cup {u}, u, 0, st))

\* The edge list [parent[i], i] for i = 1..n-1 with parent[i] !== -1.
RECURSIVE PrimEdges(_, _, _)
PrimEdges(n, parent, i) ==
    IF i >= n THEN <<>>
    ELSE IF parent[i] # -1
    THEN <<<<parent[i], i>>>> \o PrimEdges(n, parent, i + 1)
    ELSE PrimEdges(n, parent, i + 1)

primMST(points) ==
    LET n == Len(points)
        st == PrimLoop(points, 0, {},
                       [key |-> (0 :> Zero),
                        parent |-> [i \in 0 .. n - 1 |-> -1]])
    IN  PrimEdges(n, st.parent, 1)

\* degrees[i]: the number of MST edges at vertex i.
Degree(edges, i) ==
    Cardinality({k \in 1 .. Len(edges) : edges[k][1] = i})
    + Cardinality({k \in 1 .. Len(edges) : edges[k][2] = i})

\* The vertices of odd degree, ascending.
RECURSIVE OddVertices(_, _, _)
OddVertices(edges, n, i) ==
    IF i >= n THEN <<>>
    ELSE IF Degree(edges, i) % 2 = 1
    THEN <<i>> \o OddVertices(edges, n, i + 1)
    ELSE OddVertices(edges, n, i + 1)

\* The double loop over availArray: the closest pair (i < j), the first one
\* winning ties; bestPair = <<-1, -1>> stands for minDist = Infinity.
RECURSIVE MatchScan(_, _, _, _, _)
MatchScan(points, availArray, i, j, best) ==
    IF i > Len(availArray) THEN best
    ELSE IF j > Len(availArray)
    THEN MatchScan(points, availArray, i + 1, i + 2, best)
    ELSE LET dist == distance(PointAt(points, availArray[i]),
                              PointAt(points, availArray[j]))
         IN  IF best.bestPair[1] = -1 \/ Less(dist, best.minDist)
             THEN MatchScan(points, availArray, i, j + 1,
                            [minDist |-> dist,
                             bestPair |-> <<availArray[i], availArray[j]>>])
             ELSE MatchScan(points, availArray, i, j + 1, best)

\* A faulty deletion that takes only a out of the available vertices.
RECURSIVE WithoutFirstOnly(_, _, _)
WithoutFirstOnly(s, a, b) ==
    IF s = <<>> THEN <<>>
    ELSE IF Head(s) = a THEN WithoutFirstOnly(Tail(s), a, b)
    ELSE <<Head(s)>> \o WithoutFirstOnly(Tail(s), a, b)

\* s without the entries equal to a or b (available.delete).
RECURSIVE Without(_, _, _)
Without(s, a, b) ==
    IF s = <<>> THEN <<>>
    ELSE IF Head(s) = a \/ Head(s) = b THEN Without(Tail(s), a, b)
    ELSE <<Head(s)>> \o Without(Tail(s), a, b)

\* while (available.size > 1): the set keeps insertion order, so available is
\* a sequence.
RECURSIVE MatchLoop(_, _, _)
MatchLoop(points, available, matching) ==
    IF Len(available) <= 1 THEN matching
    ELSE LET best == MatchScan(points, available, 1, 2,
                               [minDist |-> Zero, bestPair |-> <<-1, -1>>])
         IN  MatchLoop(points,
                       Without(available, best.bestPair[1], best.bestPair[2]),
                       Append(matching, best.bestPair))

\* Greedy approximation of a minimum weight perfect matching.
minimumWeightPerfectMatching(points, vertices) ==
    MatchLoop(points, vertices, <<>>)

\* adj: for each vertex the far ends of its edges, in edge order.
RECURSIVE EulerAdj(_, _, _)
EulerAdj(edges, k, adj) ==
    IF k > Len(edges) THEN adj
    ELSE LET u == edges[k][1]
             v == edges[k][2]
             a1 == [adj EXCEPT ![u] = Append(@, v)]
         IN  EulerAdj(edges, k + 1, [a1 EXCEPT ![v] = Append(@, u)])

\* A faulty removal that leaves the edge in the list of its other end.
RemoveFirstKeeps(s, x) == s

\* otherNeighbors.splice(indexOf(curr), 1): s without its first x.
RECURSIVE RemoveFirst(_, _)
RemoveFirst(s, x) ==
    IF s = <<>> THEN <<>>
    ELSE IF Head(s) = x THEN Tail(s)
    ELSE <<Head(s)>> \o RemoveFirst(Tail(s), x)

\* while (stack.length > 0): take the last unused edge of the top of the
\* stack, or pop the top onto the tour.
RECURSIVE EulerLoop(_, _, _)
EulerLoop(adj, stack, tour) ==
    IF stack = <<>> THEN tour
    ELSE LET curr == stack[Len(stack)]
             neighbors == adj[curr]
         IN  IF Len(neighbors) > 0
             THEN LET next == neighbors[Len(neighbors)]
                      popped == [adj EXCEPT
                                   ![curr] = SubSeq(@, 1, Len(@) - 1)]
                  IN  EulerLoop([popped EXCEPT ![next] = RemoveFirst(@, curr)],
                                Append(stack, next), tour)
             ELSE EulerLoop(adj, SubSeq(stack, 1, Len(stack) - 1),
                            Append(tour, curr))

\* Hierholzer's algorithm from vertex 0; a vertex without edges has the
\* empty list (the source's missing map entry).
findEulerianTour(edges, n) ==
    Reverse(EulerLoop(EulerAdj(edges, 1, [i \in 0 .. n - 1 |-> <<>>]),
                      <<0>>, <<>>))

\* Shortcut to a Hamiltonian cycle: each vertex the first time it is seen.
RECURSIVE Shortcut(_, _, _, _)
Shortcut(points, tour, k, visited) ==
    IF k > Len(tour) THEN <<>>
    ELSE IF tour[k] \in visited THEN Shortcut(points, tour, k + 1, visited)
    ELSE <<PointAt(points, tour[k])>>
           \o Shortcut(points, tour, k + 1, visited \cup {tour[k]})

\* The multigraph of Christofides: MST edges, then matching edges.
ChristofidesMultigraph(points) ==
    LET mst == primMST(points)
    IN  mst \o minimumWeightPerfectMatching(points,
                                            OddVertices(mst, Len(points), 0))

\* Shortcut the Eulerian tour, path.push(path[0]) and the result.
ChristofidesReturn(points, eulerianTour) ==
    RouteOf(Append(Shortcut(points, eulerianTour, 1, {}),
                   PointAt(points, eulerianTour[1])),
            "Christofides (1.5-approx)")

solveTSPChristofides(points) ==
    IF Len(points) <= 2
    THEN RouteResult(points, calculateRouteDistance(points), "Christofides",
                     TRUE)
    ELSE ChristofidesReturn(
            points,
            findEulerianTour(ChristofidesMultigraph(points), Len(points)))

(***************************************************************************)
(* 4.6 Grid pathfinder: A*                                                 *)
(***************************************************************************)
\* const directions, in source order.
directions ==
    << <<-1, -1>>, <<-1, 0>>, <<-1, 1>>, <<0, -1>>,
       <<0, 1>>, <<1, -1>>, <<1, 0>>, <<1, 1>> >>

\* Math.round of the number x2 / 2 (floor(x + 0.5)); obstacle coordinates are
\* given as twice their value, so that halves can be written.
RoundHalf(x2) == (x2 + 1) \div 2

\* new Set(obstacles.map(o => `${Math.round(o.x)},${Math.round(o.y)}`))
ObstacleSet(obstacles) ==
    {<<RoundHalf(o.x2), RoundHalf(o.y2)>> : o \in obstacles}

\* The start node: g = 0, h = f = distance(start, goal), no parent (0).
StartNode(start, goal) ==
    [point |-> start, g |-> Zero, h |-> distance(start, goal),
     f |-> distance(start, goal), parent |-> 0]

\* A faulty neighbor whose g is the cost of the last move only.
NeighborNodeLastMoveOnly(nodes, cur, goal, dir) ==
    LET current == nodes[cur]
        newX == current.point.x + dir[1] * 2
        newY == current.point.y + dir[2] * 2
        neighborPoint == [id |-> ToString(newX) \o "," \o ToString(newY),
                          x |-> newX, y |-> newY, name |-> ""]
        gScore == distance(current.point, neighborPoint)
        h == distance(neighborPoint, goal)
    IN  [point |-> neighborPoint, g |-> gScore, h |-> h,
         f |-> Plus(gScore, h), parent |-> cur]

\* The neighbor node of the node of index cur for one direction.
NeighborNode(nodes, cur, goal, dir) ==
    LET current == nodes[cur]
        newX == current.point.x + dir[1] * 2
        newY == current.point.y + dir[2] * 2
        neighborPoint == [id |-> ToString(newX) \o "," \o ToString(newY),
                          x |-> newX, y |-> newY, name |-> ""]
        gScore == Plus(current.g, distance(current.point, neighborPoint))
        h == distance(neighborPoint, goal)
    IN  [point |-> neighborPoint, g |-> gScore, h |-> h,
         f |-> Plus(gScore, h), parent |-> cur]

\* A faulty check that leaves out the obstacles.
PassableIgnoringObstacles(p, obstacleSet, gridSize) ==
    ~(p.x < 0 \/ p.x > gridSize \/ p.y < 0 \/ p.y > gridSize)

\* A faulty check that leaves out the bounds of the grid.
PassableUnbounded(p, obstacleSet, gridSize) ==
    <<p.x, p.y>> \notin obstacleSet

\* Check bounds and obstacles (Math.round of a whole number is itself).
Passable(p, obstacleSet, gridSize) ==
    /\ ~(p.x < 0 \/ p.x > gridSize \/ p.y < 0 \/ p.y > gridSize)
    /\ <<p.x, p.y>> \notin obstacleSet

\* Generate neighbors: the nodes pushed for the node of index cur, in the
\* order of directions.
RECURSIVE Neighbors(_, _, _, _, _, _)
Neighbors(nodes, cur, goal, obstacleSet, gridSize, k) ==
    IF k > Len(directions) THEN <<>>
    ELSE LET nb == NeighborNode(nodes, cur, goal, directions[k])
             rest == Neighbors(nodes, cur, goal, obstacleSet, gridSize, k + 1)
         IN  IF Passable(nb.point, obstacleSet, gridSize)
             THEN <<nb>> \o rest ELSE rest

\* One step of a stable sort by f: e goes behind every entry of f <= its own.
RECURSIVE InsertByF(_, _, _)
InsertByF(nodes, sorted, e) ==
    IF sorted = <<>> THEN <<e>>
    ELSE IF Less(nodes[e].f, nodes[Head(sorted)].f) THEN <<e>> \o sorted
    ELSE <<Head(sorted)>> \o InsertByF(nodes, Tail(sorted), e)

\* openSet.sort((a, b) => a.f - b.f): stable, ascending f.  The array sorted
\* so far is bound to its value before the rest is sorted.
RECURSIVE SortByF(_, _, _)
SortByF(nodes, open, sorted) ==
    IF open = <<>> THEN sorted
    ELSE CHOOSE r \in {SortByF(nodes, Tail(open), s) :
                          s \in {InsertByF(nodes, sorted, Head(open))}} : TRUE

\* Reconstruct path: the points from the start node to the node of index k.
RECURSIVE ReconstructPath(_, _)
ReconstructPath(nodes, k) ==
    IF k = 0 THEN <<>>
    ELSE Append(ReconstructPath(nodes, nodes[k].parent), nodes[k].point)

\* A faulty fallback that reports the length of an empty route.
DirectResultZeroLength(start, goal) ==
    RouteResult(<<start, goal>>, Zero, "A* Pathfinding (Direct)", FALSE)

\* No path found, return direct path.
DirectResult(start, goal) ==
    RouteResult(<<start, goal>>, distance(start, goal),
                "A* Pathfinding (Direct)", FALSE)

\* The whole loop as one function.  The array is kept in sorted order from
\* one iteration to the next: the stable sort at the top of an iteration then
\* amounts to placing each node pushed by the iteration before behind the
\* entries of f <= its own.  UpperBoundByF is the number of such entries
\* (entries 1..lo have f <= the given f, entries beyond hi have a larger one).
RECURSIVE UpperBoundByF(_, _, _, _, _)
UpperBoundByF(ns, sorted, f, lo, hi) ==
    IF lo >= hi THEN lo
    ELSE LET mid == (lo + hi + 1) \div 2
         IN  IF ~Less(f, ns[sorted[mid]].f)
             THEN UpperBoundByF(ns, sorted, f, mid, hi)
             ELSE UpperBoundByF(ns, sorted, f, lo, mid - 1)

\* The sorted array with the nodes of the indices from..to pushed and sorted.
RECURSIVE PushSorted(_, _, _, _)
PushSorted(ns, sorted, from, to) ==
    IF from > to THEN sorted
    ELSE LET at == UpperBoundByF(ns, sorted, ns[from].f, 0, Len(sorted))
         IN  PushSorted(ns,
                        SubSeq(sorted, 1, at) \o <<from>>
                           \o SubSeq(sorted, at + 1, Len(sorted)),
                        from + 1, to)

\* One iteration of the while-loop, or the return after it, on the loop
\* state st = [pc, nodes, openSet, closedSet, result].
AStarStep(call, obstacleSet, st) ==
    IF st.openSet = <<>>
    THEN [st EXCEPT !.pc = "direct",
                    !.result = DirectResult(call.start, call.goal)]
    ELSE LET cur == Head(st.openSet)
             current == st.nodes[cur]
             key == <<current.point.x, current.point.y>>
         IN  IF key \in st.closedSet
             THEN [st EXCEPT !.openSet = Tail(st.openSet)]
             ELSE IF Less(distance(current.point, call.goal), Whole(1))
             THEN [st EXCEPT
                     !.openSet = Tail(st.openSet),
                     !.closedSet = @ \cup {key},
                     !.pc = "found",
                     !.result = RouteResult(ReconstructPath(st.nodes, cur),
                                            current.g, "A* Pathfinding", FALSE)]
             ELSE LET pushed == Neighbors(st.nodes, cur, call.goal, obstacleSet,
                                          call.gridSize, 1)
                      ns == st.nodes \o pushed
                  IN  [st EXCEPT
                         !.nodes = ns,
                         !.closedSet = @ \cup {key},
                         !.openSet = PushSorted(ns, Tail(st.openSet),
                                                Len(st.nodes) + 1, Len(ns))]

\* Up to 2^d steps from st, stopping at the return.
RECURSIVE AStarRun(_, _, _, _)
AStarRun(call, obstacleSet, st, d) ==
    IF st.pc # "search" THEN st
    ELSE IF d = 0 THEN AStarStep(call, obstacleSet, st)
    ELSE AStarRun(call, obstacleSet,
                  AStarRun(call, obstacleSet, st, d - 1), d - 1)

\* The least d with 2^d >= n.
RECURSIVE Log2Ceil(_)
Log2Ceil(n) == IF n <= 1 THEN 0 ELSE 1 + Log2Ceil((n + 1) \div 2)

\* function aStarPathfinding(start, goal, obstacles = [], gridSize = 100).
\* Every iteration shifts one node, and at most 8 nodes are pushed for each
\* of the at most (gridSize + 1)^2 cells that are closed, so the loop ends
\* within 8 (gridSize + 1)^2 + 2 steps.
aStarPathfinding(start, goal, obstacles, gridSize) ==
    LET call == [start |-> start, goal |-> goal, obstacles |-> obstacles,
                 gridSize |-> gridSize]
    IN  AStarRun(call, ObstacleSet(obstacles),
                 [pc |-> "search", nodes |-> <<StartNode(start, goal)>>,
                  openSet |-> <<1>>, closedSet |-> {}, result |-> <<>>],
                 Log2Ceil(8 * (gridSize + 1) * (gridSize + 1) + 2)).result

\* gridSize: number = 100
DefaultGridSize == 100

(***************************************************************************)
(* 4.7 Dispatcher                                                          *)
(***************************************************************************)
\* type AlgorithmType, in declaration order.
AlgorithmType ==
    <<"exact-dp", "nearest-neighbor", "2-opt", "christofides", "astar">>

\* A faulty switch whose ceiling for the exact solver is one too low.
DispatchBelowLimit(pts, algorithm) ==
    CASE algorithm = "exact-dp" ->
           IF Len(pts) < DPLimit
           THEN [solver |-> "solveTSPExactDP", relabel |-> ""]
           ELSE [solver |-> "solveTSPNearestNeighbor",
                 relabel |-> "Nearest Neighbor (DP limit exceeded)"]
      [] algorithm = "nearest-neighbor" ->
           [solver |-> "solveTSPNearestNeighbor", relabel |-> ""]
      [] algorithm = "2-opt" -> [solver |-> "solveTSP2Opt", relabel |-> ""]
      [] algorithm = "christofides" ->
           [solver |-> "solveTSPChristofides", relabel |-> ""]
      [] algorithm = "astar" -> [solver |-> "aStarPathfinding", relabel |-> ""]
      [] OTHER -> [solver |-> "solveTSPNearestNeighbor", relabel |-> ""]

\* The switch of solveTSP: the solver the selector is mapped to, and the
\* label that replaces the solver's own ("" if none does).  For 'astar' the
\* body is inline in solveTSP and calls aStarPathfinding per segment.
Dispatch(pts, algorithm) ==
    CASE algorithm = "exact-dp" ->
           IF Len(pts) <= DPLimit
           THEN [solver |-> "solveTSPExactDP", relabel |-> ""]
           ELSE [solver |-> "solveTSPNearestNeighbor",
                 relabel |-> "Nearest Neighbor (DP limit exceeded)"]
      [] algorithm = "nearest-neighbor" ->
           [solver |-> "solveTSPNearestNeighbor", relabel |-> ""]
      [] algorithm = "2-opt" -> [solver |-> "solveTSP2Opt", relabel |-> ""]
      [] algorithm = "christofides" ->
           [solver |-> "solveTSPChristofides", relabel |-> ""]
      [] algorithm = "astar" -> [solver |-> "aStarPathfinding", relabel |-> ""]
      [] OTHER -> [solver |-> "solveTSPNearestNeighbor", relabel |-> ""]

\* The segment loop of the 'astar' branch from the 0-based i on:
\* acc = [fullPath, totalDist].
\* fullPath.push(...result.path.slice(1)); totalDist += result.distance
AStarAddLeg(acc, r) ==
    [fullPath |-> acc.fullPath \o Tail(r.path),
     totalDist |-> Plus(acc.totalDist, r.distance)]

RECURSIVE AStarSegments(_, _, _)
AStarSegments(pts, i, acc) ==
    IF i >= Len(pts) - 1 THEN acc
    ELSE AStarSegments(pts, i + 1,
                       AStarAddLeg(acc,
                                   aStarPathfinding(PointAt(pts, i),
                                                    PointAt(pts, i + 1), {},
                                                    DefaultGridSize)))

\* The leg from the last entry of the path so far back to points[0].
AStarReturnPath(pts, fullPath) ==
    aStarPathfinding(fullPath[Len(fullPath)], PointAt(pts, 0), {},
                     DefaultGridSize)

\* A faulty result that leaves the leg back to points[0] out of the total.
AStarCloseOpenTotal(legs, returnPath) ==
    RouteResult(legs.fullPath \o Tail(returnPath.path), legs.totalDist,
                "A* Pathfinding (Multi-point)", FALSE)

\* fullPath.push(...returnPath.path.slice(1)); totalDist +=
\* returnPath.distance; and the result.
AStarClose(legs, returnPath) ==
    RouteResult(legs.fullPath \o Tail(returnPath.path),
                Plus(legs.totalDist, returnPath.distance),
                "A* Pathfinding (Multi-point)", FALSE)

\* The segment loop, then the leg back.
AStarCloseLegs(pts, legs) ==
    AStarClose(legs, AStarReturnPath(pts, legs.fullPath))

\* The 'astar' branch for 2 or more points: route between consecutive
\* points, then from the last entry of the path back to points[0].
AStarMultiPoint(pts) ==
    AStarCloseLegs(pts,
                   AStarSegments(pts, 0, [fullPath |-> <<PointAt(pts, 0)>>,
                                          totalDist |-> Zero]))

(***************************************************************************)
(* The 'astar' branch on points whose coordinates are not whole numbers.   *)
(* A point in halves is [id, x2, y2], x2 and y2 twice its coordinates (as  *)
(* the obstacles are given); the operators below are the ones above with   *)
(* every coordinate doubled: a move is 4 halves, the grid is               *)
(* 0..2 gridSize halves wide, and a length is half the root of the squared *)
(* halves (the root of a quarter of a number is half the number's root,    *)
(* rounded alike).                                                         *)
(***************************************************************************)
\* Half of a double that is 0 or at least 1.
Half(d) ==
    <<d[1] \div 2, d[2] \div 2 + (d[1] % 2) * (Limb \div 2),
      d[3] \div 2 + (d[2] % 2) * (Limb \div 2)>>

\* Math.sqrt(Math.pow(p1.x - p2.x, 2) + Math.pow(p1.y - p2.y, 2))
distanceHalves(p1, p2) ==
    LET n == (p1.x2 - p2.x2) * (p1.x2 - p2.x2)
                + (p1.y2 - p2.y2) * (p1.y2 - p2.y2)
    IN  Half(IF n \in DOMAIN SqrtTable THEN SqrtTable[n] ELSE MathSqrt(n))

RECURSIVE RouteSumHalves(_, _, _)
RouteSumHalves(path, i, total) ==
    IF i >= Len(path) THEN total
    ELSE RouteSumHalves(path, i + 1,
                        Plus(total, distanceHalves(path[i], path[i + 1])))

\* calculateRouteDistance(path) of a path of points in halves.
calculateRouteDistanceHalves(path) == RouteSumHalves(path, 1, Zero)

\* `${x}` of the number x2 / 2 >= 0: "2" or "2.5".
NumberString(x2) ==
    IF x2 % 2 = 0 THEN ToString(x2 \div 2) ELSE ToString(x2 \div 2) \o ".5"

StartNodeHalves(start, goal) ==
    [point |-> start, g |-> Zero, h |-> distanceHalves(start, goal),
     f |-> distanceHalves(start, goal), parent |-> 0]

\* The neighbor point for one direction: newX = current.point.x + dx * 2.
NeighborPointHalves(p, dir) ==
    [id |-> NumberString(p.x2 + dir[1] * 4) \o ","
               \o NumberString(p.y2 + dir[2] * 4),
     x2 |-> p.x2 + dir[1] * 4, y2 |-> p.y2 + dir[2] * 4, name |-> ""]

NeighborNodeOfHalves(current, cur, neighborPoint, goal) ==
    [point |-> neighborPoint,
     g |-> Plus(current.g, distanceHalves(current.point, neighborPoint)),
     h |-> distanceHalves(neighborPoint, goal),
     f |-> Plus(Plus(current.g,
                     distanceHalves(current.point, neighborPoint)),
                distanceHalves(neighborPoint, goal)),
     parent |-> cur]

\* Check bounds and obstacles; the obstacle key is made of Math.round(newX)
\* and Math.round(newY).
PassableHalves(x2, y2, obstacleSet, gridSize) ==
    /\ ~(x2 < 0 \/ x2 > 2 * gridSize \/ y2 < 0 \/ y2 > 2 * gridSize)
    /\ <<RoundHalf(x2), RoundHalf(y2)>> \notin obstacleSet

RECURSIVE NeighborsHalves(_, _, _, _, _, _)
NeighborsHalves(nodes, cur, goal, obstacleSet, gridSize, k) ==
    IF k > Len(directions) THEN <<>>
    ELSE IF PassableHalves(nodes[cur].point.x2 + directions[k][1] * 4,
                           nodes[cur].point.y2 + directions[k][2] * 4,
                           obstacleSet, gridSize)
    THEN <<NeighborNodeOfHalves(
              nodes[cur], cur,
              NeighborPointHalves(nodes[cur].point, directions[k]), goal)>>
            \o NeighborsHalves(nodes, cur, goal, obstacleSet, gridSize, k + 1)
    ELSE NeighborsHalves(nodes, cur, goal, obstacleSet, gridSize, k + 1)

DirectResultHalves(start, goal) ==
    RouteResult(<<start, goal>>, distanceHalves(start, goal),
                "A* Pathfinding (Direct)", FALSE)

\* The nodes pushed by an iteration, sorted into the open set.
AStarPushHalves(st, key, ns) ==
    [st EXCEPT !.nodes = ns,
               !.closedSet = @ \cup {key},
               !.openSet = PushSorted(ns, Tail(st.openSet),
                                      Len(st.nodes) + 1, Len(ns))]

\* One iteration for the node current of index cur, shifted off the open set.
AStarVisitHalves(call, obstacleSet, st, cur, current, key) ==
    IF key \in st.closedSet
    THEN [st EXCEPT !.openSet = Tail(st.openSet)]
    ELSE IF Less(distanceHalves(current.point, call.goal), Whole(1))
    THEN [st EXCEPT
            !.openSet = Tail(st.openSet),
            !.closedSet = @ \cup {key},
            !.pc = "found",
            !.result = RouteResult(ReconstructPath(st.nodes, cur),
                                   current.g, "A* Pathfinding", FALSE)]
    ELSE AStarPushHalves(st, key,
                         st.nodes \o NeighborsHalves(st.nodes, cur, call.goal,
                                                     obstacleSet,
                                                     call.gridSize, 1))

\* One iteration of the while-loop, or the return after it.
AStarStepHalves(call, obstacleSet, st) ==
    IF st.openSet = <<>>
    THEN [st EXCEPT !.pc = "direct",
                    !.result = DirectResultHalves(call.start, call.goal)]
    ELSE AStarVisitHalves(call, obstacleSet, st, Head(st.openSet),
                          st.nodes[Head(st.openSet)],
                          <<st.nodes[Head(st.openSet)].point.x2,
                            st.nodes[Head(st.openSet)].point.y2>>)

RECURSIVE AStarRunHalves(_, _, _, _)
AStarRunHalves(call, obstacleSet, st, d) ==
    IF st.pc # "search" THEN st
    ELSE IF d = 0 THEN AStarStepHalves(call, obstacleSet, st)
    ELSE AStarRunHalves(call, obstacleSet,
                        AStarRunHalves(call, obstacleSet, st, d - 1), d - 1)

\* aStarPathfinding(start, goal, obstacles, gridSize) on points in halves.
aStarPathfindingHalves(start, goal, obstacles, gridSize) ==
    AStarRunHalves([start |-> start, goal |-> goal, obstacles |-> obstacles,
                    gridSize |-> gridSize],
                   ObstacleSet(obstacles),
                   [pc |-> "search", nodes |-> <<StartNodeHalves(start, goal)>>,
                    openSet |-> <<1>>, closedSet |-> {}, result |-> <<>>],
                   Log2Ceil(8 * (gridSize + 1) * (gridSize + 1) + 2)).result

RECURSIVE AStarSegmentsHalves(_, _, _)
AStarSegmentsHalves(pts, i, acc) ==
    IF i >= Len(pts) - 1 THEN acc
    ELSE AStarSegmentsHalves(
            pts, i + 1,
            AStarAddLeg(acc, aStarPathfindingHalves(PointAt(pts, i),
                                                    PointAt(pts, i + 1), {},
                                                    DefaultGridSize)))

\* The leg back to points[0], and the result.
AStarCloseLegsHalves(pts, legs) ==
    AStarClose(legs,
               aStarPathfindingHalves(legs.fullPath[Len(legs.fullPath)],
                                      PointAt(pts, 0), {}, DefaultGridSize))

\* The 'astar' branch of solveTSP on points in halves.
solveTSPAStarHalves(pts) ==
    IF Len(pts) < 2 THEN RouteResult(pts, Zero, "A* Pathfinding", TRUE)
    ELSE AStarCloseLegsHalves(
            pts, AStarSegmentsHalves(pts, 0, [fullPath |-> <<PointAt(pts, 0)>>,
                                              totalDist |-> Zero]))

\* The call the switch makes.  The 'astar' branch is inline in solveTSP: it
\* returns at once for fewer than 2 points.
RunSolver(pts, solver) ==
    CASE solver = "solveTSPExactDP" -> solveTSPExactDP(pts)
      [] solver = "solveTSPNearestNeighbor" -> solveTSPNearestNeighbor(pts)
      [] solver = "solveTSP2Opt" -> solveTSP2Opt(pts)
      [] solver = "solveTSPChristofides" -> solveTSPChristofides(pts)
      [] solver = "aStarPathfinding" /\ Len(pts) < 2 ->
           RouteResult(pts, Zero, "A* Pathfinding", TRUE)
      [] solver = "aStarPathfinding" /\ Len(pts) >= 2 -> AStarMultiPoint(pts)

\* { ...result, algorithm: relabel }: a fresh result object, the same path.
Relabel(r, relabel) ==
    IF relabel = "" THEN r ELSE [r EXCEPT !.algorithm = relabel]

solveTSP(pts, algorithm) ==
    LET d == Dispatch(pts, algorithm)
    IN  Relabel(RunSolver(pts, d.solver), d.relabel)

\* const algorithms = ['exact-dp', 'nearest-neighbor', '2-opt', 'christofides']
CompareList == <<"exact-dp", "nearest-neighbor", "2-opt", "christofides">>

\* algorithms.filter(a => a !== 'exact-dp')
RECURSIVE FilterOut(_, _)
FilterOut(s, a) ==
    IF s = <<>> THEN <<>>
    ELSE IF Head(s) = a THEN FilterOut(Tail(s), a)
    ELSE <<Head(s)>> \o FilterOut(Tail(s), a)

\* Only run exact DP if n <= 20.
CompareToRun(pts) ==
    IF Len(pts) <= DPLimit THEN CompareList ELSE FilterOut(CompareList, "exact-dp")

compareAlgorithms(pts) ==
    LET toRun == CompareToRun(pts)
    IN  [k \in 1 .. Len(toRun) |-> solveTSP(pts, toRun[k])]

\* The caller's points array when a call returns.  Every array that a solver
\* changes in place (push, unshift, reverse, sort, the swaps of 2-opt) is
\* the path it returns or an array that does not leave the call (its
\* tables, sets and lists, the open array, the seed of 2-opt): the caller's
\* array holds the entries of the returned path if the path is that very
\* array, and is as it was otherwise.
PointsAfter(pts, r) == IF r.pathIsInput THEN r.path ELSE pts

\* The caller's array after the calls compareAlgorithms makes from the k-th
\* selector of toRun on, results[k] the result of the k-th call.
RECURSIVE PointsAfterCompare(_, _, _)
PointsAfterCompare(pts, results, k) ==
    IF k > Len(results) THEN pts
    ELSE PointsAfterCompare(PointsAfter(pts, results[k]), results, k + 1)

(***************************************************************************)
(* Inputs                                                                  *)
(***************************************************************************)
\* The points array of a sequence of coordinate pairs; the i-th point
\* (0-based) gets the id "point-i" and the name "Stop i+1".
MkPoints(cs) ==
    [i \in 1 .. Len(cs) |->
        [id |-> "point-" \o ToString(i - 1), x |-> cs[i][1], y |-> cs[i][2],
         name |-> "Stop " \o ToString(i)]]

Positions ==
    {<<(k - 1) % (MaxX + 1), (k - 1) \div (MaxX + 1)>> : k \in 1 .. MaxPos}

\* Every input of n points over Positions (repeated positions too).
EnumeratedInputs(n) == {MkPoints(cs) : cs \in [1 .. n -> Positions]}

\* n points in a row: (0,0), (1,0), ..., (n-1,0).
Line(n) == MkPoints([i \in 1 .. n |-> <<i - 1, 0>>])

\* The triangle A(0,0) B(3,0) C(0,4).
Triangle == MkPoints(<< <<0, 0>>, <<3, 0>>, <<0, 4>> >>)

\* Eight distinct points on which the greedy matching of Christofides is
\* far from a minimum-weight matching.
GreedyMatchingInput ==
    MkPoints(<< <<3, 4>>, <<5, 3>>, <<2, 1>>, <<1, 3>>,
                <<4, 1>>, <<1, 5>>, <<4, 5>>, <<0, 1>> >>)

\* The named scenarios, and the shortest input above the dispatcher's
\* ceiling for the exact solver.
ScenarioInputs ==
    {Triangle, Line(MaxN), GreedyMatchingInput, Line(DPLimit + 1)}

\* pts is one of the inputs the caller may hold.
IsInput(pts) ==
    \/ \E n \in 0 .. MaxN : pts \in EnumeratedInputs(n)
    \/ pts \in ScenarioInputs

(***************************************************************************)
(* State: one caller with the points array and the AlgorithmType it passes *)
(* to the engine; and one call of aStarPathfinding, one loop iteration per *)
(* step                                                                    *)
(***************************************************************************)
VARIABLES
    points,     \* the caller's input sequence
    pc,         \* "idle" | "called" | "done" | "compared" ("off": no caller)
    selector,   \* the AlgorithmType the caller passes to solveTSP
    called,     \* the solver the switch of solveTSP invoked ("" before)
    result,     \* the RouteResult of solveTSP (<<>> before the return)
    compared,   \* the RouteResult[] of compareAlgorithms (<<>> before)
    aCall,      \* the arguments [start, goal, obstacles, gridSize] (<<>>: none)
    aPc,        \* "off" | "search" | "found" | "direct"
    nodes,      \* every AStarNode created, in creation order
    openSet,    \* the open array, as indices into nodes
    closedSet,  \* the closed keys <<x, y>>
    aResult,    \* the RouteResult of aStarPathfinding (<<>> before the return)
    optPoints,  \* the points argument of solveTSP2Opt (<<>>: no call)
    optPc,      \* "off" | "entry" | "while" | "for" | "done"
    optPath,    \* the working path (<<>> before the seed is copied)
    optI,       \* the loop variable i of the running pass
    optJ,       \* the loop variable j of the running pass
    optImproved,    \* the flag improved
    optIterations,  \* the counter iterations
    optResult,  \* the RouteResult of solveTSP2Opt (<<>> before the return)
    appPoints,  \* App: the state points
    selectedAlgorithm,  \* App: the state selectedAlgorithm ("": no app)
    currentResult,  \* App: the state currentResult (<<>> for null)
    allResults, \* App: the state allResults
    isComputing,    \* App: the state isComputing
    timers,     \* App: the pending setTimeout callbacks, oldest first
    removed,    \* history: the ids handleRemovePoint was called with since
                \* a Run or Compare was last started
    added,      \* history: the number of points the map ever added
    events      \* history: the number of user events handled

engineVars == <<points, pc, selector, called, result, compared>>
astarVars == <<aCall, aPc, nodes, openSet, closedSet, aResult>>
twoOptVars ==
    <<optPoints, optPc, optPath, optI, optJ, optImproved, optIterations,
      optResult>>
appVars ==
    <<appPoints, selectedAlgorithm, currentResult, allResults, isComputing,
      timers, removed, added, events>>
vars == <<engineVars, astarVars, twoOptVars, appVars>>

\* No call of the engine is under way.
EngineOff ==
    /\ points = <<>>
    /\ pc = "off"
    /\ selector = ""
    /\ called = ""
    /\ result = <<>>
    /\ compared = <<>>

\* No call of aStarPathfinding is under way.
AStarOff ==
    /\ aCall = <<>>
    /\ aPc = "off"
    /\ nodes = <<>>
    /\ openSet = <<>>
    /\ closedSet = {}
    /\ aResult = <<>>

\* No call of solveTSP2Opt is followed step by step.
TwoOptOff ==
    /\ optPoints = <<>>
    /\ optPc = "off"
    /\ optPath = <<>>
    /\ optI = 0
    /\ optJ = 0
    /\ optImproved = FALSE
    /\ optIterations = 0
    /\ optResult = <<>>

\* No app is running.
AppOff ==
    /\ appPoints = <<>>
    /\ selectedAlgorithm = ""
    /\ currentResult = <<>>
    /\ allResults = <<>>
    /\ isComputing = FALSE
    /\ timers = <<>>
    /\ removed = {}
    /\ added = 0
    /\ events = 0

\* A caller that holds one of the given algorithms and has made no call.
CallerInit(algorithms) ==
    /\ pc = "idle"
    /\ selector \in {algorithms[k] : k \in 1 .. Len(algorithms)}
    /\ called = ""
    /\ result = <<>>
    /\ compared = <<>>
    /\ AStarOff
    /\ TwoOptOff
    /\ AppOff

\* The arguments of the call: an input and the selector of one of the four
\* tour solvers.
Init ==
    /\ IsInput(points)
    /\ CallerInit(SubSeq(AlgorithmType, 1, 4))

\* solveTSP(points, algorithm) up to the call of the solver.
Call ==
    /\ pc = "idle"
    /\ pc' = "called"
    /\ called' = Dispatch(points, selector).solver
    /\ UNCHANGED <<points, selector, result, compared, astarVars, twoOptVars,
                 appVars>>

\* The solver runs and solveTSP returns its (relabelled) result.
Return ==
    /\ pc = "called"
    /\ result' = Relabel(RunSolver(points, called),
                         Dispatch(points, selector).relabel)
    /\ points' = PointsAfter(points, result')
    /\ pc' = "done"
    /\ UNCHANGED <<selector, called, compared, astarVars, twoOptVars,
                 appVars>>

\* compareAlgorithms(points)
CompareAll ==
    /\ pc = "idle"
    /\ compared' = compareAlgorithms(points)
    /\ points' = PointsAfterCompare(points, compared', 1)
    /\ pc' = "compared"
    /\ UNCHANGED <<selector, called, result, astarVars, twoOptVars,
                 appVars>>

Next ==
    \/ Call
    \/ Return
    \/ CompareAll

Spec == Init /\ [][Next]_vars

(***************************************************************************)
(* The same caller of solveTSP with one selector only: 'exact-dp', or      *)
(* 'christofides'                                                          *)
(***************************************************************************)
ExactInit ==
    /\ IsInput(points)
    /\ CallerInit(<<"exact-dp">>)

SolveNext ==
    \/ Call
    \/ Return

SpecExact == ExactInit /\ [][SolveNext]_vars

ChristofidesInit ==
    /\ IsInput(points)
    /\ CallerInit(<<"christofides">>)

SpecChristofides == ChristofidesInit /\ [][SolveNext]_vars

(***************************************************************************)
(* The same caller with every selector, 'astar' included.  On the default  *)
(* grid of size 100 a search whose goal is an odd offset away visits every *)
(* cell before it gives up, so these inputs are the triangle scenario and  *)
(* points at even coordinates.                                             *)
(***************************************************************************)
EvenPositions == {<<2 * p[1], 2 * p[2]>> : p \in Positions}

\* Four points at even coordinates on which 2-opt reverses a segment of the
\* Nearest-Neighbor tour P0 P1 P2 P3 P0.
SeedImprovedInput == MkPoints(<< <<0, 0>>, <<0, 2>>, <<2, 0>>, <<4, 0>> >>)

\* Every input of n points over EvenPositions (repeated positions too).
RouteInputs(n) == {MkPoints(cs) : cs \in [1 .. n -> EvenPositions]}

RouteInit ==
    /\ \/ points = Triangle
       \/ points = SeedImprovedInput
       \/ \E n \in 0 .. MaxRouteN : points \in RouteInputs(n)
    /\ CallerInit(AlgorithmType)

SpecRoute == RouteInit /\ [][Next]_vars

(***************************************************************************)
(* The same caller asking for 'astar' on points in halves.  The positions  *)
(* are those whose offsets leave no odd whole number on an axis, so that   *)
(* no search has to visit the whole default grid before it gives up.       *)
(***************************************************************************)
HalfPositions ==
    {<<a, b>> : a \in {c \in 0 .. MaxHalf : c % 4 < 2}, b \in {0, 1}}

\* The points array of a sequence of pairs of halves.
MkHalfPoints(cs) ==
    [i \in 1 .. Len(cs) |->
        [id |-> "point-" \o ToString(i - 1), x2 |-> cs[i][1], y2 |-> cs[i][2],
         name |-> "Stop " \o ToString(i)]]

HalfInputs(n) == {MkHalfPoints(cs) : cs \in [1 .. n -> HalfPositions]}

HalvesInit ==
    /\ \E n \in 0 .. MaxRouteN : points \in HalfInputs(n)
    /\ CallerInit(<<"astar">>)

\* solveTSP returns from the 'astar' branch.
ReturnAStarHalves ==
    /\ pc = "called"
    /\ called = "aStarPathfinding"
    /\ result' = solveTSPAStarHalves(points)
    /\ pc' = "done"
    /\ UNCHANGED <<points, selector, called, compared, astarVars, twoOptVars,
                 appVars>>

HalvesNext ==
    \/ Call
    \/ ReturnAStarHalves

SpecRouteHalves == HalvesInit /\ [][HalvesNext]_vars

(***************************************************************************)
(* aStarPathfinding(start, goal, obstacles, gridSize), step by step        *)
(***************************************************************************)
\* The cells of the grid 0..MaxGrid x 0..MaxGrid, as points.
GridPoints(idPrefix) ==
    {[id |-> idPrefix, x |-> a, y |-> b, name |-> idPrefix] :
        a, b \in 0 .. MaxGrid}

\* Obstacles (twice their coordinates): the three cells around the corner
\* (MaxGrid', MaxGrid') of the cells reachable from (0, 0), MaxGrid' the
\* largest even number <= MaxGrid, and a point that rounds to one of them.
ObstacleCandidates ==
    LET m == 2 * (MaxGrid \div 2)
    IN  {[x2 |-> 2 * (m - 2), y2 |-> 2 * m], [x2 |-> 2 * m, y2 |-> 2 * (m - 2)],
         [x2 |-> 2 * (m - 2), y2 |-> 2 * (m - 2)],
         [x2 |-> 2 * (m - 2) - 1, y2 |-> 2 * m - 1]}

AStarCalls ==
    {[start |-> s, goal |-> g, obstacles |-> o, gridSize |-> MaxGrid] :
        s \in {p \in GridPoints("start") : p.x <= 1 /\ p.y <= 1 /\ p.x = p.y},
        g \in GridPoints("goal"),
        o \in SUBSET ObstacleCandidates}

AStarInit ==
    /\ EngineOff
    /\ TwoOptOff
    /\ AppOff
    /\ aCall \in AStarCalls
    /\ aPc = "search"
    /\ nodes = <<StartNode(aCall.start, aCall.goal)>>
    /\ openSet = <<1>>
    /\ closedSet = {}
    /\ aResult = <<>>

\* One iteration of while (openSet.length > 0): sort, shift the node of
\* lowest f; skip it if its key is closed; else close it, and either return
\* the reconstructed path (within distance 1 of the goal) or push its
\* neighbors.
AStarIterate ==
    /\ aPc = "search"
    /\ openSet # <<>>
    /\ \E sorted \in {SortByF(nodes, openSet, <<>>)} :
       \E current \in {nodes[Head(sorted)]} :
       \E key \in {<<current.point.x, current.point.y>>} :
           IF key \in closedSet
           THEN /\ openSet' = Tail(sorted)
                /\ UNCHANGED <<aPc, nodes, closedSet, aResult>>
           ELSE IF Less(distance(current.point, aCall.goal), Whole(1))
           THEN /\ openSet' = Tail(sorted)
                /\ closedSet' = closedSet \cup {key}
                /\ aResult' = RouteResult(ReconstructPath(nodes, Head(sorted)),
                                          current.g, "A* Pathfinding", FALSE)
                /\ aPc' = "found"
                /\ UNCHANGED nodes
           ELSE \E pushed \in {Neighbors(nodes, Head(sorted), aCall.goal,
                                         ObstacleSet(aCall.obstacles),
                                         aCall.gridSize, 1)} :
                /\ closedSet' = closedSet \cup {key}
                /\ nodes' = nodes \o pushed
                /\ openSet' = Tail(sorted)
                     \o [k \in 1 .. Len(pushed) |-> Len(nodes) + k]
                /\ UNCHANGED <<aPc, aResult>>
    /\ UNCHANGED <<aCall, engineVars, twoOptVars,
                 appVars>>

\* The loop ends with the open set empty: the direct two-point path.
AStarExhausted ==
    /\ aPc = "search"
    /\ openSet = <<>>
    /\ aResult' = DirectResult(aCall.start, aCall.goal)
    /\ aPc' = "direct"
    /\ UNCHANGED <<aCall, nodes, openSet, closedSet, engineVars, twoOptVars,
                 appVars>>

AStarNext ==
    \/ AStarIterate
    \/ AStarExhausted

SpecAStar == AStarInit /\ [][AStarNext]_vars

\* The loop is a single thread of control: a step that can be taken is
\* taken.
SpecAStarFair == SpecAStar /\ WF_vars(AStarNext)

(***************************************************************************)
(* solveTSP2Opt(points), step by step: one step per test of a pair (i, j)  *)
(***************************************************************************)
\* A faulty loop condition that goes on after a pass without a reversal.
TwoOptContinueUnimproved(improved, iterations) ==
    iterations < maxIterations

\* while (improved && iterations < maxIterations)
TwoOptContinue(improved, iterations) ==
    improved /\ iterations < maxIterations

\* A faulty start of the inner loop that leaves out the pair (i, i + 2).
TwoOptFirstJSkipsOne(i) == i + 3

\* for (let j = i + 2; ...
TwoOptFirstJ(i) == i + 2

\* A faulty reversal that starts at i instead of i + 1.
TwoOptSwapFromI(path, i, j) == ReverseSegment(path, i, j)

\* let left = i + 1; let right = j; and the swap loop.
TwoOptSwap(path, i, j) == ReverseSegment(path, i + 1, j)

TwoOptInit ==
    /\ EngineOff
    /\ AStarOff
    /\ AppOff
    /\ IsInput(optPoints)
    /\ optPc = "entry"
    /\ optPath = <<>>
    /\ optI = 0
    /\ optJ = 0
    /\ optImproved = FALSE
    /\ optIterations = 0
    /\ optResult = <<>>

\* if (n <= 2) return { path: points, ... }
TwoOptEarlyReturn ==
    /\ optPc = "entry"
    /\ Len(optPoints) <= 2
    /\ optResult' = RouteResult(optPoints, calculateRouteDistance(optPoints),
                                "2-Opt", TRUE)
    /\ optPc' = "done"
    /\ UNCHANGED <<optPoints, optPath, optI, optJ, optImproved, optIterations,
                   engineVars, astarVars,
                   appVars>>

\* The Nearest-Neighbor tour without its closing entry is the working path;
\* improved = true, iterations = 0.
TwoOptSeed ==
    /\ optPc = "entry"
    /\ Len(optPoints) > 2
    /\ optPath' = TwoOptWorkingPath(optPoints).items
    /\ optImproved' = TRUE
    /\ optIterations' = 0
    /\ optPc' = "while"
    /\ UNCHANGED <<optPoints, optI, optJ, optResult, engineVars, astarVars,
                   appVars>>

\* The loop condition holds: improved = false, iterations++, and the pass
\* starts at i = 0.
TwoOptPassBegin ==
    /\ optPc = "while"
    /\ TwoOptContinue(optImproved, optIterations)
    /\ optImproved' = FALSE
    /\ optIterations' = optIterations + 1
    /\ optI' = 0
    /\ optJ' = TwoOptFirstJ(0)
    /\ optPc' = "for"
    /\ UNCHANGED <<optPoints, optPath, optResult, engineVars, astarVars,
                   appVars>>

\* The test of the pair (i, j) holds: the segment is reversed in place.
TwoOptReverse ==
    /\ optPc = "for"
    /\ optI < Len(optPath) - 1
    /\ optJ < Len(optPath)
    /\ TwoOptImproves(optPath, optI, optJ)
    /\ optPath' = TwoOptSwap(optPath, optI, optJ)
    /\ optImproved' = TRUE
    /\ optJ' = optJ + 1
    /\ UNCHANGED <<optPoints, optPc, optI, optIterations, optResult,
                   engineVars, astarVars,
                   appVars>>

\* The test of the pair (i, j) fails.
TwoOptKeep ==
    /\ optPc = "for"
    /\ optI < Len(optPath) - 1
    /\ optJ < Len(optPath)
    /\ ~TwoOptImproves(optPath, optI, optJ)
    /\ optJ' = optJ + 1
    /\ UNCHANGED <<optPoints, optPc, optPath, optI, optImproved, optIterations,
                   optResult, engineVars, astarVars,
                   appVars>>

\* The inner loop is over: i++.
TwoOptNextI ==
    /\ optPc = "for"
    /\ optI < Len(optPath) - 1
    /\ optJ >= Len(optPath)
    /\ optI' = optI + 1
    /\ optJ' = TwoOptFirstJ(optI + 1)
    /\ UNCHANGED <<optPoints, optPc, optPath, optImproved, optIterations,
                   optResult, engineVars, astarVars,
                   appVars>>

\* The outer loop is over: back to the loop condition.
TwoOptPassEnd ==
    /\ optPc = "for"
    /\ optI >= Len(optPath) - 1
    /\ optPc' = "while"
    /\ UNCHANGED <<optPoints, optPath, optI, optJ, optImproved, optIterations,
                   optResult, engineVars, astarVars,
                   appVars>>

\* The loop condition fails: path.push(path[0]) and the result.
TwoOptFinish ==
    /\ optPc = "while"
    /\ ~TwoOptContinue(optImproved, optIterations)
    /\ optResult' = TwoOptReturn([object |-> "path", items |-> optPath])
    /\ optPath' = optResult'.path
    /\ optPc' = "done"
    /\ UNCHANGED <<optPoints, optI, optJ, optImproved, optIterations,
                   engineVars, astarVars,
                   appVars>>

TwoOptNext ==
    \/ TwoOptEarlyReturn
    \/ TwoOptSeed
    \/ TwoOptPassBegin
    \/ TwoOptReverse
    \/ TwoOptKeep
    \/ TwoOptNextI
    \/ TwoOptPassEnd
    \/ TwoOptFinish

SpecTwoOpt == TwoOptInit /\ [][TwoOptNext]_vars

\* The steps of the improvement loop, from the loop condition on.
TwoOptLoopStep ==
    \/ TwoOptPassBegin
    \/ TwoOptReverse
    \/ TwoOptKeep
    \/ TwoOptNextI
    \/ TwoOptPassEnd
    \/ TwoOptFinish

\* The loop is a single thread of control: a step of it that can be taken
\* is taken.
SpecTwoOptFair == SpecTwoOpt /\ WF_vars(TwoOptLoopStep)

(***************************************************************************)
(* The app (App.tsx): the state of the component, its handlers and the     *)
(* callbacks they hand to setTimeout(.., 100).  A handler runs to its end  *)
(* before the next event; a callback works on the points and the selected  *)
(* algorithm of the render in which its handler ran.  The stops the map    *)
(* adds are the points of ids "point-0", "point-1", ... (each id is used   *)
(* once) at the corners of a square of side 2; the sample route has the    *)
(* same eight ids every time it is loaded.  The animation has no part in   *)
(* the state below and is left out.                                        *)
(***************************************************************************)
\* if (points.length <= 15): the most points the app compares.
CompareLimit == 15

\* The k-th point (0-based) the map adds, to n stops already there:
\* name: `Stop ${points.length + 1}`.
AppStop(k, n) ==
    [id |-> "point-" \o ToString(k), x |-> 2 * (k % 2),
     y |-> 2 * ((k \div 2) % 2), name |-> "Stop " \o ToString(n + 1)]

\* prev.filter(p => p.id !== id)
RECURSIVE FilterOutId(_, _)
FilterOutId(pts, id) ==
    IF pts = <<>> THEN <<>>
    ELSE IF Head(pts).id = id THEN FilterOutId(Tail(pts), id)
    ELSE <<Head(pts)>> \o FilterOutId(Tail(pts), id)

\* useState: the state of the component when it is mounted.
AppInit ==
    /\ EngineOff
    /\ AStarOff
    /\ TwoOptOff
    /\ appPoints = <<>>
    /\ selectedAlgorithm = "2-opt"
    /\ currentResult = <<>>
    /\ allResults = <<>>
    /\ isComputing = FALSE
    /\ timers = <<>>
    /\ removed = {}
    /\ added = 0
    /\ events = 0

\* handleAddPoint(point)
handleAddPoint ==
    /\ events < MaxEvents
    /\ appPoints' = Append(appPoints, AppStop(added, Len(appPoints)))
    /\ added' = added + 1
    /\ events' = events + 1
    /\ UNCHANGED <<selectedAlgorithm, currentResult, allResults, isComputing,
                   timers, removed, engineVars, astarVars, twoOptVars>>

\* handleRemovePoint(id), id the id of a stop on the map.
handleRemovePoint ==
    /\ events < MaxEvents
    /\ \E k \in 1 .. Len(appPoints) :
          /\ appPoints' = FilterOutId(appPoints, appPoints[k].id)
          /\ removed' = removed \cup {appPoints[k].id}
    /\ currentResult' = <<>>
    /\ events' = events + 1
    /\ UNCHANGED <<selectedAlgorithm, allResults, isComputing, timers, added,
                   engineVars, astarVars, twoOptVars>>

\* handleClearPoints(): both Clear All buttons are disabled while
\* points.length === 0.
handleClearPoints ==
    /\ events < MaxEvents
    /\ ~(Len(appPoints) = 0)
    /\ appPoints' = <<>>
    /\ currentResult' = <<>>
    /\ allResults' = <<>>
    /\ events' = events + 1
    /\ UNCHANGED <<selectedAlgorithm, isComputing, timers, removed, added,
                   engineVars, astarVars, twoOptVars>>

\* const samplePoints of generateSampleData.
SamplePoints ==
    << [id |-> "sample-1", x |-> 50, y |-> 35, name |-> "Manhattan Hub"],
       [id |-> "sample-2", x |-> 65, y |-> 65, name |-> "Brooklyn Stop 1"],
       [id |-> "sample-3", x |-> 80, y |-> 35, name |-> "Queens Stop 2"],
       [id |-> "sample-4", x |-> 55, y |-> 15, name |-> "Bronx Stop 3"],
       [id |-> "sample-5", x |-> 25, y |-> 75,
        name |-> "Staten Island Stop 4"],
       [id |-> "sample-6", x |-> 60, y |-> 50, name |-> "Brooklyn Stop 5"],
       [id |-> "sample-7", x |-> 70, y |-> 25, name |-> "Queens Stop 6"],
       [id |-> "sample-8", x |-> 45, y |-> 45, name |-> "Manhattan Stop 7"] >>

\* generateSampleData(), from the button Load Sample Route.
generateSampleData ==
    /\ events < MaxEvents
    /\ appPoints' = SamplePoints
    /\ currentResult' = <<>>
    /\ allResults' = <<>>
    /\ events' = events + 1
    /\ UNCHANGED <<selectedAlgorithm, isComputing, timers, removed, added,
                   engineVars, astarVars, twoOptVars>>

\* setSelectedAlgorithm(algorithm), from the algorithm selector; the
\* 'exact-dp' button is disabled while pointCount > 20.
setSelectedAlgorithm ==
    /\ events < MaxEvents
    /\ \E k \in 1 .. Len(AlgorithmType) :
          /\ ~(AlgorithmType[k] = "exact-dp" /\ Len(appPoints) > DPLimit)
          /\ selectedAlgorithm' = AlgorithmType[k]
    /\ events' = events + 1
    /\ UNCHANGED <<appPoints, currentResult, allResults, isComputing, timers,
                   removed, added, engineVars, astarVars, twoOptVars>>

\* setIsComputing(true); setTimeout(() => {...}, 100) of handleRunAlgorithm.
StartRun(pts, algorithm) ==
    Append(timers, [kind |-> "run", points |-> pts, algorithm |-> algorithm])

\* setTimeout(() => {...}, 100) of handleCompareAll.
StartCompare(pts, algorithm) ==
    Append(timers,
           [kind |-> "compare", points |-> pts, algorithm |-> algorithm])

\* handleRunAlgorithm(): the button is disabled for fewer than 2 points (the
\* handler returns) and while isComputing.
handleRunAlgorithm ==
    /\ events < MaxEvents
    /\ ~(Len(appPoints) < 2)
    /\ ~isComputing
    /\ isComputing' = TRUE
    /\ timers' = StartRun(appPoints, selectedAlgorithm)
    /\ removed' = {}
    /\ events' = events + 1
    /\ UNCHANGED <<appPoints, selectedAlgorithm, currentResult, allResults,
                   added, engineVars, astarVars, twoOptVars>>

\* handleCompareAll(): above CompareLimit points it is handleRunAlgorithm().
handleCompareAll ==
    /\ events < MaxEvents
    /\ ~(Len(appPoints) < 2)
    /\ ~isComputing
    /\ isComputing' = TRUE
    /\ timers' = IF Len(appPoints) > CompareLimit
                 THEN StartRun(appPoints, selectedAlgorithm)
                 ELSE StartCompare(appPoints, selectedAlgorithm)
    /\ removed' = {}
    /\ events' = events + 1
    /\ UNCHANGED <<appPoints, selectedAlgorithm, currentResult, allResults,
                   added, engineVars, astarVars, twoOptVars>>

\* The callback of handleRunAlgorithm runs (the oldest timer fires first).
RunCallback ==
    /\ timers # <<>>
    /\ Head(timers).kind = "run"
    /\ currentResult' = solveTSP(Head(timers).points, Head(timers).algorithm)
    /\ allResults' = IF Len(Head(timers).points) <= CompareLimit
                     THEN compareAlgorithms(Head(timers).points)
                     ELSE allResults
    /\ isComputing' = FALSE
    /\ timers' = Tail(timers)
    /\ UNCHANGED <<appPoints, selectedAlgorithm, removed, added, events,
                   engineVars, astarVars, twoOptVars>>

\* The callback of handleCompareAll runs.
CompareCallback ==
    /\ timers # <<>>
    /\ Head(timers).kind = "compare"
    /\ allResults' = compareAlgorithms(Head(timers).points)
    /\ currentResult' = allResults'[1]
    /\ isComputing' = FALSE
    /\ timers' = Tail(timers)
    /\ UNCHANGED <<appPoints, selectedAlgorithm, removed, added, events,
                   engineVars, astarVars, twoOptVars>>

AppNext ==
    \/ handleAddPoint
    \/ handleRemovePoint
    \/ handleClearPoints
    \/ generateSampleData
    \/ setSelectedAlgorithm
    \/ handleRunAlgorithm
    \/ handleCompareAll
    \/ RunCallback
    \/ CompareCallback

SpecApp == AppInit /\ [][AppNext]_vars

(***************************************************************************)
(* Properties                                                              *)
(***************************************************************************)
\* a <= b
AtMost(a, b) == ~Less(b, a)

TourSolvers ==
    {"solveTSPExactDP", "solveTSPNearestNeighbor", "solveTSP2Opt",
     "solveTSPChristofides"}

\* path is a closed tour of pts: n+1 entries, points[0] first and last, and
\* every other input point exactly once in between.
IsClosedTour(pts, path) ==
    LET n == Len(pts)
    IN  /\ Len(path) = n + 1
        /\ path[1] = pts[1]
        /\ path[n + 1] = pts[1]
        /\ \A i \in 2 .. n :
              Cardinality({k \in 2 .. n : path[k] = pts[i]}) = 1

\* The closed tour that visits the points 1..n-1 in the given order.
TourOf(pts, order) ==
    <<pts[1]>> \o [k \in 1 .. Len(pts) - 1 |-> PointAt(pts, order[k])]
               \o <<pts[1]>>

\* Brute-force reference: the least length of a closed tour from points[0]
\* over all orderings of the points 1..n-1.
BruteForceMin(pts) ==
    LET lengths == {calculateRouteDistance(TourOf(pts, order)) :
                       order \in Permutations(1 .. Len(pts) - 1)}
    IN  CHOOSE m \in lengths : \A l \in lengths : AtMost(m, l)

\* C1: for every input of n >= 3 points, the path returned by each of the
\* four tour solvers has n+1 entries, starts and ends at points[0] and holds
\* every other input point exactly once in between.
C1_ClosedTour ==
    /\ (pc = "done" /\ called \in TourSolvers /\ Len(points) >= 3)
          => IsClosedTour(points, result.path)
    /\ (pc = "compared" /\ Len(points) >= 3)
          => \A k \in 1 .. Len(compared) : IsClosedTour(points, compared[k].path)

\* Christofides has returned a tour of 4 or more points that is not the
\* input order.
C1_Witness ==
    /\ pc = "done"
    /\ called = "solveTSPChristofides"
    /\ Len(points) >= 4
    /\ IsClosedTour(points, result.path)
    /\ result.path # Append(points, points[1])

\* C2 (as claimed): for an input of exactly 2 points each of the four tour
\* solvers returns the closed tour [points[0], points[1], points[0]] with
\* distance 2 * distance(points[0], points[1]).
C2_TwoPointTour ==
    (pc = "done" /\ called \in TourSolvers /\ Len(points) = 2)
       => /\ result.path = <<points[1], points[2], points[1]>>
          /\ result.distance = Plus(distance(points[1], points[2]),
                                    distance(points[1], points[2]))

\* C3: for every input of n >= 2 points the distance returned by the exact
\* solver is the brute-force minimum over all orderings of points 1..n-1 of
\* the closed tour from points[0], and the returned path is a closed tour of
\* that length.
C3_ExactIsBruteForceMin ==
    (pc = "done" /\ called = "solveTSPExactDP" /\ Len(points) >= 2)
       => /\ result.distance = BruteForceMin(points)
          /\ IsClosedTour(points, result.path)
          /\ calculateRouteDistance(result.path) = result.distance

\* The exact solver has returned a tour strictly shorter than the tour in
\* input order, on 4 or more points.
C3_Witness ==
    /\ pc = "done"
    /\ called = "solveTSPExactDP"
    /\ Len(points) >= 4
    /\ result.distance = BruteForceMin(points)
    /\ Less(result.distance,
            calculateRouteDistance(Append(points, points[1])))

\* C4 (as claimed): for every point set with n <= 8 the distance of the exact
\* solver is at most the distance of every other solver on the same input
\* (here: of every result compareAlgorithms returns with it).
C4_ExactIsLeast ==
    (pc = "compared" /\ Len(points) <= 8)
       => \A k \in 1 .. Len(compared) :
             AtMost(compared[1].distance, compared[k].distance)

\* C5: on every input the distance returned by 2-opt is at most the distance
\* of the Nearest-Neighbor tour of the same input.
C5_TwoOptNotWorseThanSeed ==
    (pc = "done" /\ called = "solveTSP2Opt")
       => AtMost(result.distance, solveTSPNearestNeighbor(points).distance)

\* 2-opt has returned a tour strictly shorter than its Nearest-Neighbor seed.
C5_Witness ==
    /\ pc = "done"
    /\ called = "solveTSP2Opt"
    /\ Len(points) >= 4
    /\ Less(result.distance, solveTSPNearestNeighbor(points).distance)

\* C6: solveTSP(points, 'exact-dp') calls the exact solver if and only if
\* points.length <= 20; for 21 or more points it calls Nearest Neighbor and
\* returns its path and distance under the label 'Nearest Neighbor (DP limit
\* exceeded)'.  The switch is also asked, as a function, for rows of every
\* length 0..21.
C6_ExactOnlyUpTo20 ==
    (pc \in {"called", "done"} /\ selector = "exact-dp")
       => /\ called = "solveTSPExactDP" <=> Len(points) <= 20
          /\ \A n \in 0 .. 21 :
                Dispatch(Line(n), "exact-dp").solver
                   = IF n <= 20 THEN "solveTSPExactDP"
                     ELSE "solveTSPNearestNeighbor"
          /\ Len(points) >= 21 => called = "solveTSPNearestNeighbor"
          /\ (pc = "done" /\ Len(points) <= 20)
                => result.algorithm = "Exact DP (Held-Karp)"
          /\ (pc = "done" /\ Len(points) >= 21)
                => /\ result.path = solveTSPNearestNeighbor(points).path
                   /\ result.distance = solveTSPNearestNeighbor(points).distance
                   /\ result.algorithm = "Nearest Neighbor (DP limit exceeded)"

\* A 21-point request with selector exact-dp has returned the relabelled
\* Nearest-Neighbor tour.
C6_Witness ==
    /\ pc = "done"
    /\ selector = "exact-dp"
    /\ Len(points) = 21
    /\ called = "solveTSPNearestNeighbor"
    /\ result.algorithm = "Nearest Neighbor (DP limit exceeded)"
    /\ Len(result.path) = 22

\* C7 (as claimed): compareAlgorithms returns one result per selector, in
\* selector order: five results (exact-dp, nearest-neighbor, 2-opt,
\* christofides, astar) for n <= 20, and the four without exact-dp for n > 20.
C7_OneResultPerSelector ==
    pc = "compared"
       => LET expected == IF Len(points) <= 20 THEN AlgorithmType
                          ELSE Tail(AlgorithmType)
          IN  /\ Len(compared) = Len(expected)
              /\ \A k \in 1 .. Len(expected) :
                    k <= Len(compared)
                       => compared[k].algorithm
                            = solveTSP(points, expected[k]).algorithm

\* C8: for an input of 0 or 1 points solveTSP returns, for every selector, a
\* result of distance 0 whose path is the input sequence.
C8_DegenerateInput ==
    /\ (pc = "called" /\ Len(points) <= 1) => ENABLED Return
    /\ (pc = "done" /\ Len(points) <= 1)
          => /\ result.distance = Zero
             /\ result.path = points

\* solveTSP has returned for the one-point input under the astar selector.
C8_Witness ==
    /\ pc = "done"
    /\ selector = "astar"
    /\ Len(points) = 1
    /\ result.path = points
    /\ result.distance = Zero

\* C9 (as claimed): on every point set the distance returned by Christofides
\* is at most 1.5 times the distance returned by the exact solver (twice the
\* one is at most three times the other, both without rounding).
C9_ChristofidesWithinThreeHalves ==
    (pc = "compared" /\ Len(points) <= DPLimit)
       => AtMost(Times(compared[4].distance, 2), Times(compared[1].distance, 3))

\* Some closed cell lies within distance 1 of the goal: the search popped a
\* node that passes the goal test.
GoalPopped ==
    \E key \in closedSet :
        Less(distance([x |-> key[1], y |-> key[2]], aCall.goal), Whole(1))

\* C10: when aStarPathfinding has emptied its open set without popping a node
\* within distance 1 of the goal, it returns (no error: the return is always
\* possible) the two-point path [start, goal] with the straight-line distance
\* of start and goal under the label 'A* Pathfinding (Direct)'; it returns
\* that result in no other case.
C10_ExhaustedSearchReturnsDirect ==
    /\ (aPc = "search" /\ openSet = <<>>)
          => /\ ~GoalPopped
             /\ ENABLED AStarExhausted
    /\ aPc = "direct"
          => /\ openSet = <<>>
             /\ ~GoalPopped
             /\ aResult.path = <<aCall.start, aCall.goal>>
             /\ aResult.distance = MathSqrt((aCall.start.x - aCall.goal.x) ^ 2
                                            + (aCall.start.y - aCall.goal.y) ^ 2)
             /\ aResult.algorithm = "A* Pathfinding (Direct)"
    /\ (aPc = "found") => aResult.algorithm # "A* Pathfinding (Direct)"

\* The direct result has been returned for a goal inside the grid, on a cell
\* the moves from start could reach, whose three neighbor cells are all
\* obstacles; the search closed several cells before giving up.
C10_Witness ==
    /\ aPc = "direct"
    /\ aCall.start.x = 0 /\ aCall.start.y = 0
    /\ aCall.goal.x = 2 * (MaxGrid \div 2) /\ aCall.goal.y = 2 * (MaxGrid \div 2)
    /\ \A dir \in {<<-1, 0>>, <<0, -1>>, <<-1, -1>>} :
          <<aCall.goal.x + 2 * dir[1], aCall.goal.y + 2 * dir[2]>>
             \in ObstacleSet(aCall.obstacles)
    /\ Cardinality(closedSet) >= 3
    /\ aResult.path = <<aCall.start, aCall.goal>>
    /\ Less(Zero, aResult.distance)

\* C11 (as claimed): with an empty obstacle set and start and goal inside the
\* grid, aStarPathfinding returns a search-found result: label 'A*
\* Pathfinding', a path from start to a point within distance 1 of goal, and
\* never the direct two-point fallback.
C11_EmptyGridSearchFinds ==
    (aPc \in {"found", "direct"} /\ aCall.obstacles = {})
       => /\ aPc = "found"
          /\ aResult.algorithm = "A* Pathfinding"
          /\ aResult.path[1] = aCall.start
          /\ Less(distance(aResult.path[Len(aResult.path)], aCall.goal),
                  Whole(1))

\* The operator aStarPathfinding returns what the loop, taken one iteration
\* at a time, returns.
AStarStepsAgree ==
    aPc \in {"found", "direct"}
       => aResult = aStarPathfinding(aCall.start, aCall.goal, aCall.obstacles,
                                     aCall.gridSize)

\* The number of entries of path that are the point p.
Occurrences(path, p) == Cardinality({k \in 1 .. Len(path) : path[k] = p})

\* C12 (as claimed): for n >= 2 points the path solveTSP returns for 'astar'
\* starts and ends with points[0], and every input point is in it exactly
\* once, not counting the closing entry.
C12_MultiPointClosure ==
    (pc = "done" /\ selector = "astar" /\ Len(points) >= 2)
       => /\ result.path[1] = points[1]
          /\ result.path[Len(result.path)] = points[1]
          /\ \A k \in 1 .. Len(points) :
                Occurrences(SubSeq(result.path, 1, Len(result.path) - 1),
                            points[k]) = 1

\* C13: on the triangle A(0,0), B(3,0), C(0,4) solveTSP returns the distance
\* 12 (= 3 + 5 + 4) for every selector.
C13_TriangleIsTwelve ==
    (pc = "done" /\ points = Triangle)
       => result.distance = Whole(12)

\* solveTSP has returned for the triangle under the astar selector: the legs
\* A-B and B-C are direct fallbacks, the leg back from C is found by search.
C13_Witness ==
    /\ pc = "done"
    /\ points = Triangle
    /\ selector = "astar"
    /\ result.distance = Whole(12)
    /\ SubSeq(result.path, 1, 3) = Triangle
    /\ Len(result.path) = 5

\* C14: on the collinear input (0,0), (1,0), (2,0), (3,0) each of the four
\* tour solvers returns the distance 6 (there and back).
C14_CollinearIsSix ==
    /\ (pc = "done" /\ points = Line(4) /\ called \in TourSolvers)
          => result.distance = Whole(6)
    /\ (pc = "compared" /\ points = Line(4))
          => \A k \in 1 .. Len(compared) :
                compared[k].distance = Whole(6)

\* Christofides has returned a closed tour of length 6 on the collinear input.
C14_Witness ==
    /\ pc = "done"
    /\ points = Line(4)
    /\ called = "solveTSPChristofides"
    /\ IsClosedTour(points, result.path)
    /\ result.distance = Whole(6)

\* C15: no call of solveTSP (any of the five selectors) or compareAlgorithms
\* changes the caller's points array: after every step the array has the
\* same length and the same point, with the same id, x, y and name, at every
\* index; the reversals of 2-opt act on a copy.
C15_InputUnchanged == [][points' = points]_vars

\* 2-opt has reversed a segment of its working path (the returned tour is not
\* the Nearest-Neighbor seed) and has returned a path that is not the
\* caller's array, which still holds the four input points in their order.
C15_Witness ==
    /\ pc = "done"
    /\ called = "solveTSP2Opt"
    /\ points = SeedImprovedInput
    /\ result.path # solveTSPNearestNeighbor(points).path
    /\ ~result.pathIsInput

\* C16 (as claimed): the path of every result of a solve call is a freshly
\* produced sequence, never the caller's points array itself, for every
\* selector and every input size.
C16_FreshPath ==
    /\ pc = "done" => ~result.pathIsInput
    /\ pc = "compared"
          => \A k \in 1 .. Len(compared) : ~compared[k].pathIsInput

\* The 1-based index in pts of the point p (ids are unique).
IndexIn(pts, p) == CHOOSE i \in 1 .. Len(pts) : pts[i] = p

\* The indices of pts not among the first k entries of path.
UnvisitedAt(pts, path, k) ==
    {i \in 1 .. Len(pts) : \A m \in 1 .. k : path[m] # pts[i]}

\* Entry k+1 of path is the greedy extension of its first k entries: the
\* unvisited point nearest to entry k, the lowest index among the nearest.
GreedyExtension(pts, path, k) ==
    LET open == UnvisitedAt(pts, path, k)
        near == {i \in open :
                    \A j \in open :
                       AtMost(distance(path[k], pts[i]),
                              distance(path[k], pts[j]))}
    IN  /\ path[k + 1] \in {pts[i] : i \in open}
        /\ IndexIn(pts, path[k + 1]) \in near
        /\ \A i \in near : IndexIn(pts, path[k + 1]) <= i

\* C17: for n >= 2 points the Nearest-Neighbor loop makes exactly n-1
\* extensions (the path has n+1 entries with the closing one), the tour
\* starts at points[0] and is closed back to it, and every extension appends
\* an unvisited point nearest to the current one, the lowest input index
\* winning among equally near points.
C17_GreedyNearestFirstWins ==
    (pc = "done" /\ called = "solveTSPNearestNeighbor" /\ Len(points) >= 2)
       => /\ Len(result.path) = Len(points) + 1
          /\ result.path[1] = points[1]
          /\ result.path[Len(result.path)] = points[1]
          /\ \A k \in 1 .. Len(points) - 1 :
                GreedyExtension(points, result.path, k)

\* Nearest Neighbor has returned on 4 or more points after an extension at
\* which two unvisited points were equally near and nearest.
C17_Witness ==
    /\ pc = "done"
    /\ called = "solveTSPNearestNeighbor"
    /\ Len(points) >= 4
    /\ \E k \in 1 .. Len(points) - 1 :
          /\ GreedyExtension(points, result.path, k)
          /\ \E j \in UnvisitedAt(points, result.path, k) :
                /\ points[j] # result.path[k + 1]
                /\ distance(result.path[k], points[j])
                     = distance(result.path[k], result.path[k + 1])

\* The step-by-step run of solveTSP2Opt returns what the operator returns.
TwoOptStepsAgree ==
    optPc = "done" => optResult = solveTSP2Opt(optPoints)

\* C18: the improvement loop of solveTSP2Opt, once entered, ends; it makes
\* at most maxIterations (1000) passes; the flag improved is cleared when a
\* pass begins, set by every reversal and by nothing else; and with the
\* flag clear at the end of a pass the loop stops, while with the flag set
\* and fewer than 1000 passes made another pass begins.
C18_TwoOptTerminates ==
    /\ [](optIterations <= maxIterations)
    /\ [][(optPc = "while" /\ optPc' = "for")
              => (~optImproved' /\ optIterations' = optIterations + 1)]_vars
    /\ [][(optPc = "for" /\ optPath' # optPath) => optImproved']_vars
    /\ [][(optPc = "for" /\ optPath' = optPath)
              => optImproved' = optImproved]_vars
    /\ [][(optPc = "while" /\ optIterations > 0 /\ ~optImproved)
              => optPc' = "done"]_vars
    /\ [][(optPc = "while" /\ optImproved /\ optIterations < maxIterations)
              => optPc' = "for"]_vars
    /\ (optPc = "while") ~> (optPc = "done")

\* The loop has stopped after a pass with a reversal and a pass without.
C18_Witness ==
    /\ optPc = "done"
    /\ Len(optPoints) >= 4
    /\ optIterations >= 2
    /\ ~optImproved

\* The length of the closed tour over path, the edge from the last entry
\* back to the first included.
ClosedLength(path) == calculateRouteDistance(Append(path, path[1]))

\* path holds every point of pts exactly once.
IsPermutationOf(path, pts) ==
    /\ Len(path) = Len(pts)
    /\ \A k \in 1 .. Len(pts) : \E m \in 1 .. Len(path) : path[m] = pts[k]

\* Replacing the edges (a,b), (c,d) at the 0-based edge positions i, j of
\* path by (a,c), (b,d) shortens the tour by more than the tolerance.
ShortensByMoreThanTolerance(path, i, j) ==
    LET n == Len(path)
        a == path[i + 1]
        b == path[i + 2]
        c == path[j + 1]
        d == path[((j + 1) % n) + 1]
    IN  LessByTolerance(Plus(distance(a, c), distance(b, d)),
                        Plus(distance(a, b), distance(c, d)))

\* C19: every step of solveTSP2Opt that changes the working path during a
\* pass (a segment reversal) is taken at edge positions i and j >= i + 2
\* for which distance(a,c) + distance(b,d) < distance(a,b) + distance(c,d)
\* - tolerance, leaves the path a permutation of the input points with
\* path[0] = points[0], and makes the closed-tour length smaller by more
\* than the tolerance.
C19_ReversalShortensTour ==
    [][(optPc = "for" /\ optPath' # optPath)
          => /\ optJ >= optI + 2
             /\ optJ < Len(optPath)
             /\ ShortensByMoreThanTolerance(optPath, optI, optJ)
             /\ IsPermutationOf(optPath', optPoints)
             /\ optPath'[1] = optPoints[1]
             /\ LessByTolerance(ClosedLength(optPath'),
                                ClosedLength(optPath))]_vars

\* A pass over 4 or more points is under way in which a segment has been
\* reversed: the working path is no longer the Nearest-Neighbor seed.
C19_Witness ==
    /\ optPc = "for"
    /\ optImproved
    /\ Len(optPoints) >= 4
    /\ optPath # SubSeq(solveTSPNearestNeighbor(optPoints).path, 1,
                        Len(optPoints))

\* C20: when solveTSP2Opt returns after fewer than 1000 passes, no pair of
\* edge positions i and j >= i + 2 of the returned tour is left at which
\* replacing (a,b), (c,d) by (a,c), (b,d) would shorten the tour by more
\* than the tolerance.
C20_TwoOptLocallyOptimal ==
    (optPc = "done" /\ Len(optPoints) > 2 /\ optIterations < maxIterations)
       => LET tour == SubSeq(optResult.path, 1, Len(optResult.path) - 1)
          IN  \A i \in 0 .. Len(tour) - 1 :
                 \A j \in i + 2 .. Len(tour) - 1 :
                    ~ShortensByMoreThanTolerance(tour, i, j)

\* solveTSP2Opt has returned, before the cap, a tour that is not its
\* Nearest-Neighbor seed: the seed was not locally optimal.
C20_Witness ==
    /\ optPc = "done"
    /\ Len(optPoints) >= 4
    /\ optIterations < maxIterations
    /\ optResult.path # solveTSPNearestNeighbor(optPoints).path

\* The table solveTSPExactDP has built for pts when it selects the last node.
ExactTable(pts) == DPBuild(pts, DPInit(pts), 3)

\* The last node solveTSPExactDP selects for pts (-1: none).
ExactLastNode(pts) ==
    DPLastScan(pts, ExactTable(pts), 1,
               [minTour |-> Zero, lastNode |-> -1]).lastNode

\* The table dp without the entry of key.
TableWithout(dp, key) == [k \in DOMAIN dp \ {key} |-> dp[k]]

\* C21: for n >= 2 points every key the path reconstruction of the exact
\* solver looks up is in the table (the break is never taken); the loop makes
\* exactly n-1 lookups and ends at vertex 0; the returned path has n+1
\* entries, each of them an input point (none undefined); and with any one
\* of those keys missing from the table the reconstruction stops at the
\* failed lookup.
C21_ReconstructionFindsEveryKey ==
    (pc = "done" /\ called = "solveTSPExactDP" /\ Len(points) >= 2)
       => LET n == Len(points)
              dp == ExactTable(points)
              full == (2 ^ n) - 1
              lastNode == ExactLastNode(points)
              lookups == DPWalkLookups(dp, full, lastNode)
          IN  /\ lastNode \in 1 .. n - 1
              /\ Len(lookups) = n - 1
              /\ \A k \in 1 .. Len(lookups) : lookups[k] \in DOMAIN dp
              /\ dp[lookups[n - 1]].parent = 0
              /\ Len(result.path) = n + 1
              /\ \A k \in 1 .. Len(result.path) :
                    \E m \in 1 .. n : result.path[k] = points[m]
              /\ \A k \in 1 .. Len(lookups) :
                    LET cut == TableWithout(dp, lookups[k])
                        stopped == DPWalkLookups(cut, full, lastNode)
                    IN  /\ Len(stopped) = k
                        /\ stopped[k] = lookups[k]
                        /\ Len(DPWalk(points, cut, full, lastNode,
                                      <<PointAt(points, 0)>>)) = k + 1

\* The exact solver has returned a tour of 4 or more points that does not
\* visit them in input order: the reconstruction followed recorded parents.
C21_Witness ==
    /\ pc = "done"
    /\ called = "solveTSPExactDP"
    /\ Len(points) >= 4
    /\ Len(DPWalkLookups(ExactTable(points), (2 ^ Len(points)) - 1,
                         ExactLastNode(points))) = Len(points) - 1
    /\ result.path # Append(points, points[1])
    /\ result.path # Reverse(Append(points, points[1]))

\* The vertices joined to a vertex of S by edges of the set E (pairs <<u,
\* v>>, used in both directions), S included.
RECURSIVE ReachFrom(_, _)
ReachFrom(E, S) ==
    LET T == S \cup {e[2] : e \in {f \in E : f[1] \in S}}
                \cup {e[1] : e \in {f \in E : f[2] \in S}}
    IN  IF T = S THEN S ELSE ReachFrom(E, T)

\* The edges of the sequence edges, as a set.
EdgeSet(edges) == {edges[k] : k \in 1 .. Len(edges)}

\* The weight of the edge e between points of pts.
EdgeWeight(pts, e) == distance(PointAt(pts, e[1]), PointAt(pts, e[2]))

\* The total weight of the edges of the set E, a sum without rounding.
RECURSIVE TotalWeight(_, _)
TotalWeight(pts, E) ==
    IF E = {} THEN Zero
    ELSE LET e == CHOOSE f \in E : TRUE
         IN  Sum(EdgeWeight(pts, e), TotalWeight(pts, E \ {e}))

\* E is a spanning tree of the vertices 0..n-1: n-1 edges that join them all.
IsSpanningTree(E, n) ==
    /\ Cardinality(E) = n - 1
    /\ ReachFrom(E, {0}) = 0 .. n - 1

\* Every spanning tree of the complete graph on 0..n-1, as a set of edges
\* <<u, v>> with u < v.
SpanningTrees(n) ==
    {E \in SUBSET {<<u, v>> \in (0 .. n - 1) \X (0 .. n - 1) : u < v} :
        IsSpanningTree(E, n)}

\* C22: for n >= 2 points primMST returns exactly n-1 distinct edges between
\* vertices of 0..n-1 that join all vertices (a spanning tree: connected,
\* and acyclic for having n-1 edges); no edge outside the tree is lighter
\* than an edge of the tree path between its ends; and for up to 4 points
\* the tree's total weight is the least total weight of all spanning trees
\* of the complete graph.
C22_PrimIsMinimumSpanningTree ==
    (pc = "done" /\ called = "solveTSPChristofides" /\ Len(points) >= 2)
       => LET n == Len(points)
              mst == primMST(points)
              T == EdgeSet(mst)
          IN  /\ Len(mst) = n - 1
              /\ \A e \in T : e[1] \in 0 .. n - 1 /\ e[2] \in 0 .. n - 1
                                  /\ e[1] # e[2]
              /\ IsSpanningTree(T, n)
              /\ \A u, v \in 0 .. n - 1 :
                    u < v =>
                       v \in ReachFrom(
                                {e \in T : AtMost(EdgeWeight(points, e),
                                                  EdgeWeight(points, <<u, v>>))},
                                {u})
              /\ n <= 4 =>
                    \A E \in SpanningTrees(n) :
                       AtMost(TotalWeight(points, T), TotalWeight(points, E))

\* Christofides has returned on 4 points whose minimum spanning tree is not
\* the star at vertex 0 and is lighter than some other spanning tree.
C22_Witness ==
    /\ pc = "done"
    /\ called = "solveTSPChristofides"
    /\ Len(points) = 4
    /\ \E e \in EdgeSet(primMST(points)) : e[1] # 0
    /\ \E E \in SpanningTrees(4) :
          Less(TotalWeight(points, EdgeSet(primMST(points))),
               TotalWeight(points, E))

\* The odd-degree vertices of the MST of pts, and their matching.
OddOfMST(pts) == OddVertices(primMST(pts), Len(pts), 0)
MatchingOfOdd(pts) == minimumWeightPerfectMatching(pts, OddOfMST(pts))

\* C23: in solveTSPChristofides (3 or more points) the MST vertices of odd
\* degree are an even number; the matching loop ends with half as many
\* edges, each between two different vertices; every odd-degree vertex is in
\* exactly one matching edge and every even-degree vertex in none.
C23_MatchingPairsOddVertices ==
    (pc = "done" /\ called = "solveTSPChristofides" /\ Len(points) > 2)
       => LET n == Len(points)
              mst == primMST(points)
              odd == OddOfMST(points)
              matching == MatchingOfOdd(points)
          IN  /\ Len(odd) % 2 = 0
              /\ 2 * Len(matching) = Len(odd)
              /\ \A k \in 1 .. Len(matching) :
                    /\ matching[k][1] # matching[k][2]
                    /\ matching[k][1] \in 0 .. n - 1
                    /\ matching[k][2] \in 0 .. n - 1
              /\ \A v \in 0 .. n - 1 :
                    Degree(matching, v)
                       = (IF Degree(mst, v) % 2 = 1 THEN 1 ELSE 0)

\* Christofides has returned on an input whose MST has four vertices of odd
\* degree: the matching loop ran twice.
C23_Witness ==
    /\ pc = "done"
    /\ called = "solveTSPChristofides"
    /\ Len(points) > 2
    /\ Len(OddOfMST(points)) = 4
    /\ Len(MatchingOfOdd(points)) = 2

\* The number of entries of edges that join u and v, in either direction.
Parallel(edges, u, v) ==
    Cardinality({k \in 1 .. Len(edges) :
                    \/ edges[k] = <<u, v>>
                    \/ edges[k] = <<v, u>>})

\* The steps of the walk tour, as edges.
WalkEdges(tour) == [k \in 1 .. Len(tour) - 1 |-> <<tour[k], tour[k + 1]>>]

\* C24: in solveTSPChristofides (3 or more points) every vertex of the
\* multigraph of MST and matching edges has even degree, and
\* findEulerianTour returns a walk that starts and ends at vertex 0, has one
\* more entry than the multigraph has edges, takes every edge as often as
\* the multigraph holds it (parallel edges counted separately), and visits
\* every vertex 0..n-1.
C24_EulerianTourTakesEveryEdgeOnce ==
    (pc = "done" /\ called = "solveTSPChristofides" /\ Len(points) > 2)
       => LET n == Len(points)
              multigraph == ChristofidesMultigraph(points)
              tour == findEulerianTour(multigraph, n)
          IN  /\ \A v \in 0 .. n - 1 : Degree(multigraph, v) % 2 = 0
              /\ tour[1] = 0
              /\ tour[Len(tour)] = 0
              /\ Len(tour) = Len(multigraph) + 1
              /\ \A u, v \in 0 .. n - 1 :
                    Parallel(WalkEdges(tour), u, v) = Parallel(multigraph, u, v)
              /\ \A v \in 0 .. n - 1 : \E k \in 1 .. Len(tour) : tour[k] = v

\* Christofides has returned on an input whose multigraph holds an MST edge
\* and a matching edge between the same two vertices.
C24_Witness ==
    /\ pc = "done"
    /\ called = "solveTSPChristofides"
    /\ Len(points) > 3
    /\ \E u, v \in 0 .. Len(points) - 1 :
          /\ u # v
          /\ Parallel(ChristofidesMultigraph(points), u, v) = 2
          /\ Parallel(WalkEdges(findEulerianTour(ChristofidesMultigraph(points),
                                                 Len(points))), u, v) = 2

\* The 8 moves: (dx, dy) in {-2, 0, 2} x {-2, 0, 2} other than (0, 0).
Moves == {m \in {-2, 0, 2} \X {-2, 0, 2} : m # <<0, 0>>}

\* C25: in every search-found result of aStarPathfinding the first path
\* point is start, and every later path point lies inside [0, gridSize] x
\* [0, gridSize], is not a cell of the obstacle set, and differs from its
\* predecessor by one of the 8 moves.
C25_FoundPathStaysOnFreeCells ==
    aPc = "found"
       => /\ aResult.algorithm = "A* Pathfinding"
          /\ aResult.path[1] = aCall.start
          /\ \A k \in 2 .. Len(aResult.path) :
                LET p == aResult.path[k]
                    q == aResult.path[k - 1]
                IN  /\ p.x \in 0 .. aCall.gridSize
                    /\ p.y \in 0 .. aCall.gridSize
                    /\ <<p.x, p.y>> \notin ObstacleSet(aCall.obstacles)
                    /\ <<p.x - q.x, p.y - q.y>> \in Moves

\* A path of 3 or more points has been found that passes next to an
\* obstacle cell: one move away from a path point lies an obstacle.
C25_Witness ==
    /\ aPc = "found"
    /\ Len(aResult.path) >= 3
    /\ \E k \in 1 .. Len(aResult.path) - 1 :
          \E m \in Moves :
             <<aResult.path[k].x + m[1], aResult.path[k].y + m[2]>>
                \in ObstacleSet(aCall.obstacles)

\* The cells a move may land on: in bounds and off the obstacle set.
FreeCells(call) ==
    {c \in (0 .. call.gridSize) \X (0 .. call.gridSize) :
        c \notin ObstacleSet(call.obstacles)}

\* The cost of a walk is <<s, d>>: s moves along an axis (2 each) and d
\* diagonal moves (2 sqrt 2 each).  The cost of the move from cell b to c.
MoveCost(b, c) ==
    IF b[1] = c[1] \/ b[2] = c[2] THEN <<1, 0>> ELSE <<0, 1>>

\* 2 s1 + 2 sqrt(2) d1 < 2 s2 + 2 sqrt(2) d2, that is s < sqrt(2) d for
\* s = s1 - s2, d = d2 - d1: decided on the squares.
CostLess(c1, c2) ==
    LET s == c1[1] - c2[1]
        d == c2[2] - c1[2]
    IN  IF d >= 0 THEN s < 0 \/ s * s < 2 * d * d
        ELSE s < 0 /\ s * s > 2 * d * d

\* The least of a non-empty set of costs.
Least(S) == CHOOSE x \in S : \A y \in S : ~CostLess(y, x)

\* The least cost of a walk of at most k more moves than D covers, for every
\* cell such a walk reaches; D maps the cells reached so far to their least
\* cost so far.
RECURSIVE WalkCosts(_, _, _)
WalkCosts(call, D, k) ==
    LET from(c) == {b \in DOMAIN D : <<c[1] - b[1], c[2] - b[2]>> \in Moves}
        reached == DOMAIN D \cup {c \in FreeCells(call) : from(c) # {}}
        next == [c \in reached |->
                   Least((IF c \in DOMAIN D THEN {D[c]} ELSE {})
                         \cup (IF c \in FreeCells(call)
                               THEN {<<D[b][1] + MoveCost(b, c)[1],
                                       D[b][2] + MoveCost(b, c)[2]>> :
                                        b \in from(c)}
                               ELSE {}))]
    IN  IF k = 0 \/ next = D THEN D ELSE WalkCosts(call, next, k - 1)

\* The least cost of a walk from start to a cell within distance 1 of the
\* goal, <<-1, -1>> if no walk reaches such a cell.
LeastWalkCost(call) ==
    LET start == <<call.start.x, call.start.y>>
        D == WalkCosts(call, (start :> <<0, 0>>),
                       (call.gridSize + 1) * (call.gridSize + 1))
        near == {c \in DOMAIN D :
                    Less(distance([x |-> c[1], y |-> c[2]], call.goal),
                         Whole(1))}
    IN  IF near = {} THEN <<-1, -1>> ELSE Least({D[c] : c \in near})

\* The cost of the walk along path.
PathCost(path) ==
    <<Cardinality({k \in 1 .. Len(path) - 1 :
                      path[k].x = path[k + 1].x \/ path[k].y = path[k + 1].y}),
      Cardinality({k \in 1 .. Len(path) - 1 :
                      path[k].x # path[k + 1].x /\ path[k].y # path[k + 1].y})>>

\* C26: the distance of every search-found result of aStarPathfinding is the
\* least total cost of all walks of step-2 moves from start, over cells in
\* bounds and off the obstacles, to a cell within distance 1 of the goal: it
\* is the length of the returned path, as calculateRouteDistance sums it, and
\* no such walk costs less than the returned path.
C26_FoundDistanceIsLeast ==
    aPc = "found"
       => /\ PathCost(aResult.path) = LeastWalkCost(aCall)
          /\ aResult.distance = calculateRouteDistance(aResult.path)

\* A path has been found around an obstacle: it is longer than the straight
\* line from start to goal.
C26_Witness ==
    /\ aPc = "found"
    /\ Len(aResult.path) >= 3
    /\ aCall.obstacles # {}
    /\ Less(distance(aCall.start, aCall.goal), aResult.distance)
    /\ PathCost(aResult.path) = LeastWalkCost(aCall)

\* C27: aStarPathfinding terminates: every run of the loop reaches a return
\* (found or direct); a step never takes a key out of the closed set, and a
\* step that pushes nodes or returns the found path adds to the closed set
\* exactly the key of the node it popped, which was not closed before (a key
\* is expanded at most once); every node pushed lies in bounds, so the
\* closed keys are never more than the cells of the grid and the start.
C27_SearchTerminates ==
    /\ [][closedSet \subseteq closedSet']_vars
    /\ [][(nodes' # nodes \/ (aPc = "search" /\ aPc' = "found"))
              => /\ openSet # <<>>
                 /\ LET current == nodes[Head(SortByF(nodes, openSet, <<>>))]
                        key == <<current.point.x, current.point.y>>
                    IN  /\ key \notin closedSet
                        /\ closedSet' = closedSet \cup {key}]_vars
    /\ [](\A k \in 2 .. Len(nodes) :
             /\ nodes[k].point.x \in 0 .. aCall.gridSize
             /\ nodes[k].point.y \in 0 .. aCall.gridSize)
    /\ [](Cardinality(closedSet)
             <= (aCall.gridSize + 1) * (aCall.gridSize + 1) + 1)
    /\ <>(aPc \in {"found", "direct"})

\* The search has returned after popping a node whose key was closed already
\* (the same cell had been pushed twice) and skipping it.
C27_Witness ==
    /\ aPc \in {"found", "direct"}
    /\ Cardinality(closedSet) >= 4
    /\ Len(nodes) > Cardinality(closedSet) + Len(openSet)


\* C28: for every result solveTSP returns, the distance field is the sum of
\* the distances between consecutive entries of the returned path; here for
\* the 'astar' selector on points whose coordinates are whole or half
\* numbers.
C28_DistanceIsLengthOfPath ==
    pc = "done" => result.distance = calculateRouteDistanceHalves(result.path)


\* C29: when the callback of a Compare All on 2..15 stops has run, the
\* distance of the current result (comparisons[0]) is at most the distance
\* of every result in allResults.
C29_ComparedFirstIsBest ==
    [][(/\ timers # <<>>
        /\ Head(timers).kind = "compare"
        /\ Len(Head(timers).points) \in 2 .. CompareLimit
        /\ timers' = Tail(timers))
          => \A k \in 1 .. Len(allResults') :
                AtMost(currentResult'.distance, allResults'[k].distance)]_vars

\* C30: once handleRemovePoint(id) has run, currentResult holds no path with
\* the removed point in it unless a Run or Compare was started after the
\* removal: removed holds the ids removed since the last such start.
C30_RemovedStopStaysOffTheRoute ==
    currentResult # <<>>
        => \A k \in 1 .. Len(currentResult.path) :
              currentResult.path[k].id \notin removed

====
